---- MODULE Spec2Model ----
(***************************************************************************)
(* claude-pretty-printer: the message formatter (src/src/index.ts) and the *)
(* command-line shell that feeds it (cli.ts).                              *)
(*                                                                         *)
(* A JavaScript string is a sequence of tokens.  A token is one character  *)
(* ("a", " ", "\n", "HR" for U+2500 the horizontal-rule character,         *)
(* "DIAMOND" for U+25C6 the header marker) or one literal fragment of the  *)
(* source (a label such as "[Synthetic]", an ANSI escape code).  A         *)
(* JavaScript value is a record tagged by its typeof in field t.           *)
(***************************************************************************)
EXTENDS Integers, Sequences, FiniteSets, TLC

VARIABLES
  columns,      \* process.stdout.columns; 0 stands for undefined
  colorOn,      \* picocolors' isColorSupported
  pc,           \* position of the formatMessage call: idle, validate, render, box, returned, thrown
  msg,          \* formatMessage's argument message
  showBox,      \* formatMessage's argument showBox
  header,       \* formatMessage's local header
  content,      \* formatMessage's local content
  result,       \* what the call returned or threw
  calls,        \* the functions the call has entered, in order
  argv,         \* process.argv.slice(2)
  cliPc,        \* position of the shell: start, main, stdin, file, exited
  mode,         \* the branch main took: none, stdin, inline, file, error
  source,       \* the lines the input delivered: stdin's as they arrive, a file's when read
  input,        \* in file mode, the lines the loop has yet to take
  stdout,       \* what console.log wrote, one entry per call
  stderr,       \* what console.error wrote, one entry per call
  exitCode,     \* the process's exit code; -1 while it runs
  callee,       \* the function a caller has entered directly, none if none
  given,        \* the helper's argument
  answer,       \* what the helper returned or threw
  logged,       \* the texts the logger was given since a logging hook was last invoked
  settled       \* the invocation of a logging hook: its arguments and what its promise settled to

fmtVars == <<pc, msg, showBox, header, content, result, calls>>
cliVars == <<argv, cliPc, mode, source, input, stdout, stderr, exitCode>>
envVars == <<columns, colorOn>>
logVars == <<logged, settled>>
libVars == <<callee, given, answer, logged, settled>>
vars == <<columns, colorOn, pc, msg, showBox, header, content, result, calls,
          argv, cliPc, mode, source, input, stdout, stderr, exitCode,
          callee, given, answer, logged, settled>>

---------------------------------------------------------------------------
(* Bounds of the model *)

MaxTextLen == 2     \* longest text drawn for a string field
MaxBlocks == 2      \* most content blocks in a message
MaxColumns == 1     \* widest terminal drawn besides the undetected one
MaxLines == 3       \* most input lines the shell is given
MaxArgs == 2        \* most command-line arguments
MaxStringLen == 103 \* longest string handed to the value formatter
MaxArrayLen == 5    \* longest array handed to the value formatter
MaxKeys == 3        \* most keys of an object handed to the value formatter
MaxDepth == 3       \* deepest nesting of a value handed to the value formatter
MaxResponseLen == 503 \* longest tool response text of a PostToolUse notification

---------------------------------------------------------------------------
(* JavaScript strings and values *)

HR == "HR"
DIAMOND == "DIAMOND"
Whitespace == {" ", "\n"}
Alphabet == {"a", " ", "\n", HR, DIAMOND}

RECURSIVE SeqsUpTo(_, _)
SeqsUpTo(S, n) ==
  IF n = 0 THEN {<<>>}
  ELSE LET shorter == SeqsUpTo(S, n - 1)
       IN  shorter \cup {Append(s, x) : s \in {t \in shorter : Len(t) = n - 1}, x \in S}

Texts == SeqsUpTo(Alphabet, MaxTextLen)

Undefined == [t |-> "undefined"]
Null == [t |-> "null"]
Bool(b) == [t |-> "boolean", b |-> b]
Num(n) == [t |-> "number", n |-> n]
Str(s) == [t |-> "string", s |-> s]
Arr(a) == [t |-> "array", a |-> a]

\* JavaScript's ToBoolean, as used by !x, x && y and if (x)
Truthy(v) ==
  CASE v.t = "undefined" -> FALSE
    [] v.t = "null" -> FALSE
    [] v.t = "boolean" -> v.b
    [] v.t = "number" -> v.n # 0
    [] v.t = "string" -> v.s # <<>>
    [] OTHER -> TRUE

\* String.prototype.trim
RECURSIVE TrimStart(_)
TrimStart(s) ==
  IF s # <<>> /\ Head(s) \in Whitespace THEN TrimStart(Tail(s)) ELSE s

RECURSIVE TrimEnd(_)
TrimEnd(s) ==
  IF s # <<>> /\ s[Len(s)] \in Whitespace THEN TrimEnd(SubSeq(s, 1, Len(s) - 1)) ELSE s

trim(s) == TrimEnd(TrimStart(s))

\* Array.prototype.join
RECURSIVE join(_, _)
join(lines, sep) ==
  IF lines = <<>> THEN <<>>
  ELSE IF Len(lines) = 1 THEN lines[1]
  ELSE lines[1] \o sep \o join(Tail(lines), sep)

\* String.prototype.repeat for a one-character string
repeat(char, n) == [i \in 1..n |-> char]

Count(s, c) == Cardinality({i \in 1..Len(s) : s[i] = c})
Contains(s, c) == \E i \in 1..Len(s) : s[i] = c

---------------------------------------------------------------------------
(* Terminal helpers *)

DefaultWidth == 80

\* picocolors: a formatter wraps its argument in an escape pair when colour is
\* supported and returns it unchanged otherwise
Paint(style, s) == IF colorOn THEN <<"ESC[" \o style>> \o s \o <<"ESC[/" \o style>> ELSE s

\* a width that is not the same in the first call and in the later ones
getTerminalWidth_Drifting ==
  (IF columns # 0 THEN columns ELSE DefaultWidth) + (IF callee = "none" THEN 0 ELSE 1)

getTerminalWidth == IF columns # 0 THEN columns ELSE DefaultWidth

createLine(char, width) == repeat(char, width)

createBox(hdr, body) ==
  LET termWidth == getTerminalWidth
      topLine == createLine(HR, termWidth)
      bottomLine == createLine(HR, termWidth)
  IN  Paint("dim", topLine) \o <<"\n">> \o hdr \o <<"\n">> \o body \o <<"\n">>
        \o Paint("dim", bottomLine)

---------------------------------------------------------------------------
(* What a call produces: a returned string or a thrown error *)

Returned(s) == [kind |-> "string", str |-> s]
Thrown(name, text) == [kind |-> "error", name |-> name, message |-> text]
NoResult == [kind |-> "none"]

\* A renderer's outcome: header and content, or the error it threw
Rendering(h, c) == [ok |-> TRUE, header |-> h, content |-> c]
Failure(name, text) == [ok |-> FALSE, error |-> Thrown(name, text)]

---------------------------------------------------------------------------
(* Record validation *)

requiredFields_ApiTime ==
  <<"duration_ms", "duration_api_ms", "usage", "num_turns", "session_id", "uuid">>

requiredFields == <<"duration_ms", "total_cost_usd", "usage", "num_turns", "session_id", "uuid">>

\* field in message
HasField(message, field) == message.fields[field].t # "undefined"

missingFields(message) == SelectSeq(requiredFields, LAMBDA field : ~HasField(message, field))

ResultExample == "Example: npx claude-pretty-printer '{...}'"

validateResultMessage(message) ==
  LET missing == missingFields(message)
  IN  IF Len(missing) > 0
      THEN Thrown("Error",
                  <<"Result messages require these fields: ">>
                    \o join([i \in 1..Len(missing) |-> <<missing[i]>>], <<", ">>)
                    \o <<".", "\n", ResultExample>>)
      ELSE NoResult

validateAssistantMessage(message) ==
  IF ~Truthy(message.message)
  THEN Thrown("Error", <<"Assistant messages require a \"message\" field with content">>)
  ELSE NoResult

\* the replay check made first
validateUserMessage_ReplayExempt(message) ==
  IF ~Truthy(message.isReplay) /\ ~Truthy(message.message)
  THEN Thrown("Error", <<"User messages require a \"message\" field with content">>)
  ELSE NoResult

validateUserMessage_NullOnly(message) ==
  IF message.message.t \in {"undefined", "null"}
  THEN Thrown("Error", <<"User messages require a \"message\" field with content">>)
  ELSE NoResult

validateUserMessage(message) ==
  IF ~Truthy(message.message)
  THEN Thrown("Error", <<"User messages require a \"message\" field with content">>)
  ELSE NoResult

\* NoResult when the record passes, the thrown error otherwise
validateMessage(message) ==
  CASE message.t = "null" -> Thrown("TypeError", <<"Cannot read properties of null">>)
    [] message.t # "null" /\ message.type = "result" -> validateResultMessage(message)
    [] message.t # "null" /\ message.type = "assistant" -> validateAssistantMessage(message)
    [] message.t # "null" /\ message.type = "user" -> validateUserMessage(message)
    [] OTHER -> NoResult

---------------------------------------------------------------------------
(* String coercion *)

\* String(value) and template interpolation `${value}`
RECURSIVE String(_)
String(v) ==
  CASE v.t = "undefined" -> <<"undefined">>
    [] v.t = "null" -> <<"null">>
    [] v.t = "boolean" -> IF v.b THEN <<"true">> ELSE <<"false">>
    [] v.t = "number" -> <<ToString(v.n)>>
    [] v.t = "string" -> v.s
    [] v.t = "array" ->
         join([i \in 1..Len(v.a) |->
                 IF v.a[i].t \in {"undefined", "null"} THEN <<>> ELSE String(v.a[i])], <<",">>)
    [] OTHER -> <<"[object Object]">>

---------------------------------------------------------------------------
(* User turns *)

\* the lines one content block of a tool result contributes
ToolResultContentLines(blockContent) ==
  CASE blockContent.t = "string" -> <<blockContent.s>>
    [] blockContent.t = "array" ->
         LET shown == SelectSeq(blockContent.a, LAMBDA cb : cb.type \in {"text", "image"})
         IN  [i \in 1..Len(shown) |->
                IF shown[i].type = "text" THEN shown[i].text
                ELSE Paint("dim", <<"[Image result]">>)]
    [] OTHER -> <<>>

\* the lines one block of a user message's array content contributes
UserBlockLines(block) ==
  CASE block.t = "string" -> <<block.s>>
    [] block.t # "string" /\ block.type = "text" -> <<block.text>>
    [] block.t # "string" /\ block.type = "image" -> <<Paint("dim", <<"[Image]">>)>>
    [] block.t # "string" /\ block.type = "tool_result" ->
         LET resultIcon == IF Truthy(block.is_error) THEN Paint("red", <<"CROSS">>)
                           ELSE Paint("green", <<"CHECK">>)
         IN  << <<"\n">> \o resultIcon \o <<" ">>
                  \o Paint("dim", <<"Tool result: ">> \o String(block.tool_use_id)) >>
               \o ToolResultContentLines(block.content)
               \o (IF Truthy(block.is_error)
                   THEN <<Paint("red", <<"CROSS", " ", "Error in tool execution">>)>>
                   ELSE <<>>)
    [] OTHER -> <<>>

RECURSIVE UserLines(_)
UserLines(blocks) ==
  IF blocks = <<>> THEN <<>> ELSE UserBlockLines(Head(blocks)) \o UserLines(Tail(blocks))

hasToolResults_FirstBlock(c) ==
  c.t = "array" /\ Len(c.a) > 0 /\ c.a[1].t # "string" /\ c.a[1].type = "tool_result"

\* the flag the loop over the content blocks sets
hasToolResults(c) ==
  c.t = "array" /\ \E i \in 1..Len(c.a) : c.a[i].t # "string" /\ c.a[i].type = "tool_result"

UserHeader(c) ==
  IF hasToolResults(c) THEN Paint("green", <<DIAMOND, " ", "USER (Tool Results)">>)
  ELSE Paint("green", <<DIAMOND, " ", "USER">>)

IsReplay_Never(message) == FALSE

\* 'isReplay' in message && message.isReplay
IsReplay(message) == Truthy(message.isReplay)

\* a marker that is put only in front of content that is there
formatUserMessage_MarkerIfContent(message) ==
  IF IsReplay(message) THEN Rendering(<<>>, <<>>)
  ELSE IF message.message.t \in {"undefined", "null"}
  THEN Failure("TypeError", <<"Cannot read properties of undefined (reading 'content')">>)
  ELSE
    LET c == IF message.message.t = "object" THEN message.message.content ELSE Undefined
        lines == CASE c.t = "string" -> <<c.s>>
                   [] c.t = "array" -> UserLines(c.a)
                   [] OTHER -> <<>>
        contentText == IF Truthy(message.isSynthetic) /\ join(lines, <<"\n">>) # <<>>
                       THEN Paint("dim", <<"[Synthetic]">>) \o <<" ">> \o join(lines, <<"\n">>)
                       ELSE join(lines, <<"\n">>)
    IN  Rendering(UserHeader(c), contentText)

formatUserMessage(message) ==
  IF IsReplay(message) THEN Rendering(<<>>, <<>>)
  ELSE IF message.message.t \in {"undefined", "null"}
  THEN Failure("TypeError", <<"Cannot read properties of undefined (reading 'content')">>)
  ELSE
    LET c == IF message.message.t = "object" THEN message.message.content ELSE Undefined
        lines == CASE c.t = "string" -> <<c.s>>
                   [] c.t = "array" -> UserLines(c.a)
                   [] OTHER -> <<>>
        contentText == IF Truthy(message.isSynthetic)
                       THEN Paint("dim", <<"[Synthetic]">>) \o <<" ">> \o join(lines, <<"\n">>)
                       ELSE join(lines, <<"\n">>)
    IN  Rendering(UserHeader(c), contentText)

---------------------------------------------------------------------------
(* Stream deltas *)

formatStreamEvent(message) ==
  LET event == message.event
  IN  IF event.t # "object"
      THEN Thrown("TypeError", <<"Cannot read properties of undefined (reading 'type')">>)
      ELSE CASE event.type = "content_block_start" ->
                  IF event.content_block.type = "tool_use"
                  THEN Returned(<<"\n">> \o Paint("dim", <<"[Starting tool: ">>
                                   \o String(event.content_block.name) \o <<"]">>))
                  ELSE Returned(<<>>)
             [] event.type = "content_block_delta" ->
                  IF event.delta.type = "text_delta" THEN Returned(event.delta.text)
                  ELSE IF event.delta.type = "input_json_delta"
                  THEN Returned(event.delta.partial_json)
                  ELSE Returned(<<>>)
             [] OTHER -> Returned(<<>>)

---------------------------------------------------------------------------
(* Assistant turns *)

\* the decimal digits of a natural number, one character each
RECURSIVE Digits(_)
Digits(n) ==
  IF n < 10 THEN <<ToString(n)>> ELSE Digits(n \div 10) \o <<ToString(n % 10)>>

\* String(n) of an integer, one character per token
NumberChars(n) == IF n < 0 THEN <<"-">> \o Digits(-n) ELSE Digits(n)

\* String(b) of a boolean, one character per token
BooleanChars(b) == IF b THEN <<"t", "r", "u", "e">> ELSE <<"f", "a", "l", "s", "e">>

NullChars == <<"n", "u", "l", "l">>

\* the length of a string in characters: a token of several characters counts them all
RECURSIVE length(_)
length(s) ==
  IF Len(s) = 0 THEN 0
  ELSE IF Len(s) = 1 THEN Len(s[1])
  ELSE LET half == Len(s) \div 2
       IN  length(SubSeq(s, 1, half)) + length(SubSeq(s, half + 1, Len(s)))

EscapeChar_Verbatim(c) == <<c>>

\* JSON's quoted form of a string: quote, backslash and newline are escaped
EscapeChar(c) ==
  CASE c = "\"" -> <<"\\", "\"">>
    [] c = "\\" -> <<"\\", "\\">>
    [] c = "\n" -> <<"\\", "n">>
    [] OTHER -> <<c>>

RECURSIVE Quote(_)
Quote(s) ==
  IF Len(s) = 0 THEN <<>>
  ELSE IF Len(s) = 1 THEN EscapeChar(s[1])
  ELSE LET half == Len(s) \div 2
       IN  Quote(SubSeq(s, 1, half)) \o Quote(SubSeq(s, half + 1, Len(s)))

\* JSON.stringify(value, null, gap) at nesting level `level`; gap is 0 or 2.
\* A property whose value is undefined is left out; an undefined element reads null.
RECURSIVE Serialize(_, _, _)
Serialize(value, gap, level) ==
  LET inner == repeat(" ", gap * (level + 1))
      outer == repeat(" ", gap * level)
      open == IF gap = 0 THEN <<>> ELSE <<"\n">> \o inner
      close == IF gap = 0 THEN <<>> ELSE <<"\n">> \o outer
      between == IF gap = 0 THEN <<",">> ELSE <<",", "\n">> \o inner
      colon == IF gap = 0 THEN <<":">> ELSE <<":", " ">>
  IN  CASE value.t = "null" -> NullChars
        [] value.t = "undefined" -> NullChars
        [] value.t = "string" -> <<"\"">> \o Quote(value.s) \o <<"\"">>
        [] value.t = "number" -> NumberChars(value.n)
        [] value.t = "boolean" -> BooleanChars(value.b)
        [] value.t = "array" ->
             IF value.a = <<>> THEN <<"[", "]">>
             ELSE <<"[">> \o open
                    \o join([i \in 1..Len(value.a) |-> Serialize(value.a[i], gap, level + 1)],
                            between)
                    \o close \o <<"]">>
        [] OTHER ->
             LET kept == SelectSeq(value.entries, LAMBDA e : e[2].t # "undefined")
             IN  IF kept = <<>> THEN <<"{", "}">>
                 ELSE <<"{">> \o open
                        \o join([i \in 1..Len(kept) |->
                                   <<"\"">> \o Quote(kept[i][1]) \o <<"\"">> \o colon
                                     \o Serialize(kept[i][2], gap, level + 1)],
                                between)
                        \o close \o <<"}">>

\* JSON.stringify(value) and JSON.stringify(value, null, 2)
JSONstringify(value, gap) == Serialize(value, gap, 0)

MaxParamString_OffByOne == 100 + 1
MaxParamString == 100
ParamStringKept == 97
MaxArrayShown_Four == 3 + 1
MaxArrayShown == 3
MaxCompactJson_Longer == 80 + 1
MaxCompactJson == 80

\* A string value is a sequence of characters, one token each.
RECURSIVE formatToolParamValue(_)
formatToolParamValue(value) ==
  CASE value.t = "null" -> NullChars
    [] value.t = "undefined" -> <<"u", "n", "d", "e", "f", "i", "n", "e", "d">>
    [] value.t = "string" ->
         IF length(value.s) > MaxParamString
         THEN <<"\"">> \o SubSeq(value.s, 1, ParamStringKept) \o <<".", ".", ".", "\"">>
         ELSE <<"\"">> \o value.s \o <<"\"">>
    [] value.t = "number" -> NumberChars(value.n)
    [] value.t = "boolean" -> BooleanChars(value.b)
    [] value.t = "array" ->
         IF Len(value.a) = 0 THEN <<"[", "]">>
         ELSE IF Len(value.a) <= MaxArrayShown
         THEN <<"[">> \o join([i \in 1..Len(value.a) |-> formatToolParamValue(value.a[i])],
                              <<",", " ">>) \o <<"]">>
         ELSE <<"[">> \o join([i \in 1..MaxArrayShown |-> formatToolParamValue(value.a[i])],
                              <<",", " ">>)
                \o <<",", " ", ".", ".", ".", " ", "+">>
                \o Digits(Len(value.a) - MaxArrayShown) \o <<" ", "m", "o", "r", "e", "]">>
    [] OTHER ->
         LET entries == value.entries
         IN  IF Len(entries) = 0 THEN <<"{", "}">>
             ELSE IF Len(entries) = 1
             THEN <<"{", " ">> \o entries[1][1] \o <<":", " ">>
                    \o formatToolParamValue(entries[1][2]) \o <<" ", "}">>
             ELSE LET json == JSONstringify(value, 0)
                  IN  IF length(json) <= MaxCompactJson THEN json
                      ELSE <<"{", " ">> \o Digits(Len(entries))
                             \o <<" ", "p", "r", "o", "p", "e", "r", "t", "i", "e", "s", " ", "}">>

\* the lines one content block of an assistant message contributes
AssistantBlockLines(block) ==
  CASE block.type = "text" -> <<block.text>>
    [] block.type = "tool_use" ->
         << <<"\n">> \o Paint("cyan", <<"ARROW">>) \o <<" ">> \o Paint("bold", String(block.name)) >>
           \o (IF block.input.t = "object"
               THEN [i \in 1..Len(block.input.entries) |->
                       <<" ", " ">> \o Paint("dim", block.input.entries[i][1]) \o <<":", " ">>
                         \o formatToolParamValue(block.input.entries[i][2])]
               ELSE <<>>)
    [] OTHER -> <<>>

RECURSIVE AssistantLines(_)
AssistantLines(blocks) ==
  IF blocks = <<>> THEN <<>>
  ELSE AssistantBlockLines(Head(blocks)) \o AssistantLines(Tail(blocks))

ThinkingLines(msgPayload) ==
  IF msgPayload.thinking.t = "array"
  THEN LET texts == SelectSeq(msgPayload.thinking.a, LAMBDA tb : tb.type = "text")
           thinking == join([i \in 1..Len(texts) |-> texts[i].text], <<"\n">>)
       IN  IF thinking # <<>>
           THEN << <<"\n">> \o Paint("dim", Paint("italic", <<"[Thinking]">>)) \o <<"\n">>
                     \o Paint("dim", thinking) >>
           ELSE <<>>
  ELSE <<>>

formatAssistantMessage(message) ==
  IF message.message.t \in {"undefined", "null"}
  THEN Failure("TypeError", <<"Cannot read properties of undefined (reading 'content')">>)
  ELSE IF message.message.t # "object" \/ message.message.content.t \notin {"array", "string"}
  THEN Failure("TypeError", <<"msg.content is not iterable">>)
  ELSE LET c == message.message.content
           \* iterating a string yields its characters, none of which has a type
           blocks == IF c.t = "array" THEN c.a ELSE <<>>
       IN  Rendering(Paint("blue", <<DIAMOND, " ", "ASSISTANT">>),
                     join(AssistantLines(blocks) \o ThinkingLines(message.message), <<"\n">>))

---------------------------------------------------------------------------
(* Number formatting.  A duration is a whole number of milliseconds; a cost  *)
(* is a whole number of 1/100000 dollars.                                    *)

Pad(n, width) ==
  LET digits == ToString(n)
  IN  [i \in 1..(width - Len(digits)) |-> "0"] \o <<digits>>

\* (ms / 1000).toFixed(2)
SecondsFixed2(ms) ==
  LET hundredths == (ms + 5) \div 10
  IN  <<ToString(hundredths \div 100), ".">> \o Pad(hundredths % 100, 2)

\* cost.toFixed(4)
DollarsFixed4(cost) ==
  LET tenThousandths == (cost + 5) \div 10
  IN  <<ToString(tenThousandths \div 10000), ".">> \o Pad(tenThousandths % 10000, 4)

\* Number.prototype.toLocaleString in the en-US locale
RECURSIVE toLocaleString(_)
toLocaleString(n) ==
  IF n < 1000 THEN <<ToString(n)>>
  ELSE toLocaleString(n \div 1000) \o <<",">> \o Pad(n % 1000, 3)

\* (value / 1000).toFixed(2): undefined divides to NaN, null to 0
DurationText(v) ==
  CASE v.t = "number" -> SecondsFixed2(v.n)
    [] v.t = "null" -> SecondsFixed2(0)
    [] OTHER -> <<"NaN">>

---------------------------------------------------------------------------
(* Run summaries *)

StatusLines(message) ==
  CASE message.fields["subtype"] = Str(<<"success">>) ->
         << Paint("green", <<"CHECK", " ", "Task completed successfully">>),
            <<"\n">> \o Paint("bold", <<"Result:">>) \o <<" ">> \o String(message.fields["result"]) >>
    [] message.fields["subtype"] = Str(<<"error_max_turns">>) ->
         << Paint("red", <<"CROSS", " ", "Error: Maximum turns reached">>) >>
    [] message.fields["subtype"] = Str(<<"error_during_execution">>) ->
         << Paint("red", <<"CROSS", " ", "Error during execution">>) >>
    [] OTHER -> <<>>

StatisticsLines(message) ==
  << <<"\n">> \o Paint("bold", <<"Statistics:">>),
     <<" ", " ">> \o Paint("dim", <<"Duration:">>) \o <<" ">>
       \o DurationText(message.fields["duration_ms"]) \o <<"s">>,
     <<" ", " ">> \o Paint("dim", <<"API Time:">>) \o <<" ">>
       \o DurationText(message.fields["duration_api_ms"]) \o <<"s">>,
     <<" ", " ">> \o Paint("dim", <<"Turns:">>) \o <<" ">> \o String(message.fields["num_turns"]),
     <<" ", " ">> \o Paint("dim", <<"Cost:">>) \o <<" ">>
       \o Paint("yellow", <<"$">> \o DollarsFixed4(message.fields["total_cost_usd"].n)) >>

TokenUsageLines(usage) ==
  << <<"\n">> \o Paint("bold", <<"Token Usage:">>),
     <<" ", " ">> \o Paint("dim", <<"Input:">>) \o <<" ">> \o toLocaleString(usage.input_tokens.n),
     <<" ", " ">> \o Paint("dim", <<"Output:">>) \o <<" ">> \o toLocaleString(usage.output_tokens.n) >>
    \o (IF Truthy(usage.cache_read_input_tokens)
        THEN << <<" ", " ">> \o Paint("dim", <<"Cache Read:">>) \o <<" ">>
                  \o Paint("cyan", toLocaleString(usage.cache_read_input_tokens.n)) >>
        ELSE <<>>)
    \o (IF Truthy(usage.cache_creation_input_tokens)
        THEN << <<" ", " ">> \o Paint("dim", <<"Cache Creation:">>) \o <<" ">>
                  \o toLocaleString(usage.cache_creation_input_tokens.n) >>
        ELSE <<>>)

ModelLines(entry) ==
  LET model == entry[1]
      usage == entry[2]
  IN  << <<" ", " ">> \o Paint("cyan", model) \o <<":">>,
         <<" ", " ", " ", " ">> \o Paint("dim", <<"Input:">>) \o <<" ">>
           \o toLocaleString(usage.inputTokens.n),
         <<" ", " ", " ", " ">> \o Paint("dim", <<"Output:">>) \o <<" ">>
           \o toLocaleString(usage.outputTokens.n) >>
        \o (IF Truthy(usage.cacheReadInputTokens)
            THEN << <<" ", " ", " ", " ">> \o Paint("dim", <<"Cache Read:">>) \o <<" ">>
                      \o Paint("cyan", toLocaleString(usage.cacheReadInputTokens.n)) >>
            ELSE <<>>)
        \o (IF Truthy(usage.cacheCreationInputTokens)
            THEN << <<" ", " ", " ", " ">> \o Paint("dim", <<"Cache Creation:">>) \o <<" ">>
                      \o toLocaleString(usage.cacheCreationInputTokens.n) >>
            ELSE <<>>)
        \o << <<" ", " ", " ", " ">> \o Paint("dim", <<"Cost:">>) \o <<" ">>
                \o Paint("yellow", <<"$">> \o DollarsFixed4(usage.costUSD.n)) >>

RECURSIVE ModelUsageEntries(_)
ModelUsageEntries(entries) ==
  IF entries = <<>> THEN <<>> ELSE ModelLines(Head(entries)) \o ModelUsageEntries(Tail(entries))

\* Object.keys of a primitive is empty
ModelUsageLines(modelUsage) ==
  IF modelUsage.t = "object" /\ Len(modelUsage.entries) > 0
  THEN << <<"\n">> \o Paint("bold", <<"Per-Model Usage:">>) >> \o ModelUsageEntries(modelUsage.entries)
  ELSE <<>>

PermissionDenialLines(denials) ==
  IF denials.t = "array" /\ Len(denials.a) > 0
  THEN << <<"\n">> \o Paint("bold", Paint("red", <<"Permission Denials:">>)) \o <<" ">>
            \o <<ToString(Len(denials.a))>> >>
         \o [i \in 1..Len(denials.a) |->
               <<" ", " ">> \o Paint("red", <<"BULLET">>) \o <<" ">> \o denials.a[i].tool_name
                 \o <<" ">> \o Paint("dim", <<"(">> \o denials.a[i].tool_use_id \o <<")">>)]
  ELSE <<>>

formatResultMessage(message) ==
  IF message.fields["total_cost_usd"].t # "number"
  THEN Failure("TypeError", <<"message.total_cost_usd.toFixed is not a function">>)
  ELSE IF message.fields["usage"].t # "object"
  THEN Failure("TypeError", <<"Cannot read properties of undefined (reading 'input_tokens')">>)
  ELSE IF message.fields["usage"].input_tokens.t # "number"
            \/ message.fields["usage"].output_tokens.t # "number"
  THEN Failure("TypeError", <<"Cannot read properties of undefined (reading 'toLocaleString')">>)
  ELSE IF message.fields["modelUsage"].t \in {"undefined", "null"}
  THEN Failure("TypeError", <<"Cannot convert undefined or null to object">>)
  ELSE IF message.fields["permission_denials"].t \in {"undefined", "null"}
  THEN Failure("TypeError", <<"Cannot read properties of undefined (reading 'length')">>)
  ELSE Rendering(Paint("magenta", <<DIAMOND, " ", "RESULT">>),
                 join(StatusLines(message) \o StatisticsLines(message)
                        \o TokenUsageLines(message.fields["usage"])
                        \o ModelUsageLines(message.fields["modelUsage"])
                        \o PermissionDenialLines(message.fields["permission_denials"]),
                      <<"\n">>))

---------------------------------------------------------------------------
(* System notices *)

\* String.prototype.split on one separator character
RECURSIVE split(_, _)
split(s, sep) ==
  IF \E i \in 1..Len(s) : s[i] = sep
  THEN LET i == CHOOSE k \in 1..Len(s) : s[k] = sep /\ \A j \in 1..(k - 1) : s[j] # sep
       IN  <<SubSeq(s, 1, i - 1)>> \o split(SubSeq(s, i + 1, Len(s)), sep)
  ELSE <<s>>

\* text.split('\n').map((l) => `  ${l}`).join('\n')
Indent(text) ==
  LET ls == split(text, "\n")
  IN  join([i \in 1..Len(ls) |-> <<" ", " ">> \o ls[i]], <<"\n">>)

ServerLine(server) ==
  LET statusEmoji ==
        CASE server.status = <<"connected">> -> Paint("green", <<"CHECK">>)
          [] server.status = <<"failed">> -> Paint("red", <<"CROSS">>)
          [] server.status = <<"needs-auth">> -> Paint("yellow", <<"WARN">>)
          [] OTHER -> Paint("dim", <<"CIRCLE">>)
  IN  <<" ", " ">> \o statusEmoji \o <<" ">> \o server.name \o <<" ">>
        \o Paint("dim", <<"(">> \o server.status \o <<")">>)

\* names.join(', ')
CommaList(names) == join(names, <<",", " ">>)

InitLines(message) ==
  << <<"\n">> \o Paint("bold", <<"Claude Code Session Initialized">>),
     <<"\n">> \o Paint("dim", <<"Version:">>) \o <<" ">> \o String(message.claude_code_version),
     Paint("dim", <<"Model:">>) \o <<" ">> \o Paint("cyan", String(message.model)),
     Paint("dim", <<"Working Directory:">>) \o <<" ">> \o String(message.cwd),
     Paint("dim", <<"Permission Mode:">>) \o <<" ">> \o String(message.permissionMode),
     Paint("dim", <<"API Key Source:">>) \o <<" ">> \o String(message.apiKeySource) >>
    \o (IF Len(message.tools.a) > 0
        THEN << <<"\n">> \o Paint("dim", <<"Available Tools:">>) \o <<" ">>
                  \o <<ToString(Len(message.tools.a))>> >>
        ELSE <<>>)
    \o (IF Len(message.mcp_servers.a) > 0
        THEN << <<"\n">> \o Paint("bold", <<"MCP Servers:">>) >>
               \o [i \in 1..Len(message.mcp_servers.a) |-> ServerLine(message.mcp_servers.a[i])]
        ELSE <<>>)
    \o (IF Len(message.slash_commands.a) > 0
        THEN << <<"\n">> \o Paint("dim", <<"Slash Commands:">>) \o <<" ">>
                  \o CommaList(message.slash_commands.a) >>
        ELSE <<>>)
    \o (IF message.agents.t = "array" /\ Len(message.agents.a) > 0
        THEN << <<"\n">> \o Paint("dim", <<"Agents:">>) \o <<" ">> \o CommaList(message.agents.a) >>
        ELSE <<>>)
    \o (IF message.skills.t = "array" /\ Len(message.skills.a) > 0
        THEN << <<"\n">> \o Paint("dim", <<"Skills:">>) \o <<" ">> \o CommaList(message.skills.a) >>
        ELSE <<>>)

CompactLines(message) ==
  << <<"\n">> \o Paint("yellow", <<"BOLT">>) \o <<" ">> \o Paint("bold", <<"Conversation Compacted">>)
       \o <<" ">> \o Paint("dim", <<"(">> \o String(message.compact_metadata.trigger) \o <<")">>),
     <<" ", " ", " ">> \o Paint("dim", <<"Previous tokens:">>) \o <<" ">>
       \o toLocaleString(message.compact_metadata.pre_tokens.n) >>

\* the hook_response lines; showExit says whether the exit-code line is among them
HookLines(message, showExit) ==
  << <<"\n">> \o Paint("cyan", <<"GEAR">>) \o <<" ">> \o Paint("bold", <<"Hook:">>) \o <<" ">>
       \o String(message.hook_name) \o <<" ">>
       \o Paint("dim", <<"(">> \o String(message.hook_event) \o <<")">>) >>
    \o (IF Truthy(message.stdout)
        THEN << <<"\n">> \o Paint("dim", <<"stdout:">>), Indent(message.stdout.s) >>
        ELSE <<>>)
    \o (IF Truthy(message.stderr)
        THEN << <<"\n">> \o Paint("dim", <<"stderr:">>), Paint("red", Indent(message.stderr.s)) >>
        ELSE <<>>)
    \o (IF showExit
        THEN LET exitIcon == IF message.exit_code = Num(0) THEN Paint("green", <<"CHECK">>)
                             ELSE Paint("red", <<"CROSS">>)
             IN  << <<"\n">> \o exitIcon \o <<" ">> \o Paint("dim", <<"Exit code:">>) \o <<" ">>
                       \o String(message.exit_code) >>
        ELSE <<>>)

HookResponseLines_ExitTruthy(message) == HookLines(message, Truthy(message.exit_code))

\* if (message.exit_code !== undefined)
HookResponseLines(message) == HookLines(message, message.exit_code.t # "undefined")

SystemHeader == Paint("yellow", <<DIAMOND, " ", "SYSTEM">>)

formatSystemMessage(message) ==
  CASE message.subtype = "init" ->
         IF message.tools.t # "array" \/ message.mcp_servers.t # "array"
              \/ message.slash_commands.t # "array"
         THEN Failure("TypeError", <<"Cannot read properties of undefined (reading 'length')">>)
         ELSE Rendering(SystemHeader, join(InitLines(message), <<"\n">>))
    [] message.subtype = "compact_boundary" ->
         IF message.compact_metadata.t # "object"
         THEN Failure("TypeError", <<"Cannot read properties of undefined (reading 'trigger')">>)
         ELSE IF message.compact_metadata.pre_tokens.t # "number"
         THEN Failure("TypeError",
                      <<"Cannot read properties of undefined (reading 'toLocaleString')">>)
         ELSE Rendering(SystemHeader, join(CompactLines(message), <<"\n">>))
    [] message.subtype = "hook_response" ->
         Rendering(SystemHeader, join(HookResponseLines(message), <<"\n">>))
    [] OTHER -> Rendering(SystemHeader, Paint("dim", <<"[Unknown system message subtype]">>))

---------------------------------------------------------------------------
(* Lifecycle notifications: the hook formatters.  The text fields of a      *)
(* notification are strings of one character per token, or absent.          *)

\* if (field) lines.push(line)
WhenSet(field, line) == IF Truthy(field) THEN <<line>> ELSE <<>>

WorkingDirectoryLine(message) ==
  WhenSet(message.cwd, <<" ", " ", " ">> \o Paint("dim", <<"Working directory:">>) \o <<" ">>
                         \o String(message.cwd))

TranscriptLine(message) ==
  WhenSet(message.transcript_path, <<" ", " ", " ">> \o Paint("dim", <<"Transcript:">>) \o <<" ">>
                                     \o String(message.transcript_path))

\* text.split('\n').map((l) => `  ${style(l)}`).join('\n'); style "" leaves l as it is
Indented(text, style) ==
  LET ls == split(text, "\n")
  IN  join([i \in 1..Len(ls) |->
              <<" ", " ">> \o (IF style = "" THEN ls[i] ELSE Paint(style, ls[i]))], <<"\n">>)

\* typeof v === 'string' ? v : JSON.stringify(v, null, 2)
TextOf(v) == IF v.t = "string" THEN v.s ELSE JSONstringify(v, 2)

NotAString(field) == Truthy(field) /\ field.t # "string"

SplitFailure == Thrown("TypeError", <<"split is not a function">>)

TruncationMarker == Paint("dim", <<"... (truncated)">>)

formatPreToolUseHook(message) ==
  Returned(join(
    << <<"\n">> \o Paint("blue", <<"WRENCH">>) \o <<" ">> \o Paint("bold", <<"Pre-Tool Use:">>)
         \o <<" ">> \o Paint("cyan", String(message.tool_name)) >>
      \o WorkingDirectoryLine(message)
      \o (IF Truthy(message.tool_input)
          THEN << <<"\n">> \o Paint("dim", <<"Tool input:">>),
                  Indented(TextOf(message.tool_input), "gray") >>
          ELSE <<>>),
    <<"\n">>))

MaxResponseShown_AsPrompt == 100 + 100
MaxResponseShown == 500

formatPostToolUseHook(message) ==
  Returned(join(
    << <<"\n">> \o Paint("green", <<"CHECKMARK">>) \o <<" ">> \o Paint("bold", <<"Post-Tool Use:">>)
         \o <<" ">> \o Paint("cyan", String(message.tool_name)) >>
      \o WorkingDirectoryLine(message)
      \o (IF message.tool_response.t # "undefined"
          THEN LET responseStr == TextOf(message.tool_response)
                   truncatedResponse ==
                     IF length(responseStr) > MaxResponseShown
                     THEN SubSeq(responseStr, 1, MaxResponseShown) \o TruncationMarker
                     ELSE responseStr
               IN  << <<"\n">> \o Paint("dim", <<"Tool response:">>),
                      Indented(truncatedResponse, "gray") >>
          ELSE <<>>),
    <<"\n">>))

formatNotificationHook(message) ==
  IF NotAString(message.message) THEN SplitFailure
  ELSE Returned(join(
    << <<"\n">> \o Paint("yellow", <<"BELL">>) \o <<" ">> \o Paint("bold", <<"Notification">>) >>
      \o WhenSet(message.title, <<" ", " ", " ">> \o Paint("cyan", String(message.title)))
      \o (IF Truthy(message.message)
          THEN << <<"\n">> \o Paint("dim", <<"Message:">>), Indented(message.message.s, "") >>
          ELSE <<>>)
      \o WhenSet(message.cwd, <<"\n", " ", " ", " ">> \o Paint("dim", <<"Location:">>) \o <<" ">>
                                \o String(message.cwd)),
    <<"\n">>))

MaxPromptShown == 200

formatUserPromptSubmitHook(message) ==
  IF NotAString(message.prompt) THEN SplitFailure
  ELSE Returned(join(
    << <<"\n">> \o Paint("magenta", <<"MEMO">>) \o <<" ">>
         \o Paint("bold", <<"User Prompt Submitted">>) >>
      \o WorkingDirectoryLine(message)
      \o (IF Truthy(message.prompt)
          THEN LET preview ==
                     IF length(message.prompt.s) > MaxPromptShown
                     THEN SubSeq(message.prompt.s, 1, MaxPromptShown) \o TruncationMarker
                     ELSE message.prompt.s
               IN  << <<"\n">> \o Paint("dim", <<"Prompt:">>), Indented(preview, "") >>
          ELSE <<>>),
    <<"\n">>))

formatSessionStartHook(message) ==
  LET icon == CASE message.source = Str(<<"startup">>) -> Paint("green", <<"ROCKET">>)
                [] message.source = Str(<<"resume">>) -> Paint("blue", <<"PLAY">>)
                [] message.source = Str(<<"clear">>) -> Paint("yellow", <<"CYCLE">>)
                [] message.source = Str(<<"compact">>) -> Paint("cyan", <<"PACKAGE">>)
                [] OTHER -> Paint("gray", <<"PIN">>)
  IN  Returned(join(
        << <<"\n">> \o icon \o <<" ">> \o Paint("bold", <<"Session Started">>) \o <<" ">>
             \o Paint("dim", <<"(">> \o String(message.source) \o <<")">>) >>
          \o TranscriptLine(message)
          \o WorkingDirectoryLine(message)
          \o WhenSet(message.permission_mode,
                     <<" ", " ", " ">> \o Paint("dim", <<"Permission mode:">>) \o <<" ">>
                       \o String(message.permission_mode)),
        <<"\n">>))

formatSessionEndHook(message) ==
  Returned(join(
    << <<"\n">> \o Paint("red", <<"STOPSIGN">>) \o <<" ">> \o Paint("bold", <<"Session Ended">>) >>
      \o WhenSet(message.reason, <<" ", " ", " ">> \o Paint("dim", <<"Reason:">>) \o <<" ">>
                                   \o Paint("yellow", String(message.reason)))
      \o TranscriptLine(message)
      \o WorkingDirectoryLine(message),
    <<"\n">>))

\* the lines formatStopHook and formatSubagentStopHook share but for the title
StopLines(message, title) ==
  LET stopIcon == IF Truthy(message.stop_hook_active) THEN Paint("yellow", <<"PAUSE">>)
                  ELSE Paint("red", <<"STOPSIGN">>)
  IN  << <<"\n">> \o stopIcon \o <<" ">> \o Paint("bold", <<title>>),
         <<" ", " ", " ">> \o (IF Truthy(message.stop_hook_active)
                               THEN Paint("yellow", <<"Stop hook is active">>)
                               ELSE Paint("dim", <<"Stop hook is inactive">>)) >>
        \o WorkingDirectoryLine(message)
        \o TranscriptLine(message)

formatStopHook(message) == Returned(join(StopLines(message, "Stop Hook Triggered"), <<"\n">>))

formatSubagentStopHook(message) ==
  Returned(join(StopLines(message, "Subagent Stop Hook Triggered"), <<"\n">>))

formatPreCompactHook(message) ==
  LET icon == CASE message.trigger = Str(<<"manual">>) -> Paint("blue", <<"POINT">>)
                [] message.trigger = Str(<<"auto">>) -> Paint("cyan", <<"ROBOT">>)
                [] OTHER -> Paint("gray", <<"PACKAGE">>)
  IN  IF NotAString(message.custom_instructions) THEN SplitFailure
      ELSE Returned(join(
        << <<"\n">> \o icon \o <<" ">> \o Paint("bold", <<"Pre-Compaction">>) \o <<" ">>
             \o Paint("dim", <<"(">> \o String(message.trigger) \o <<")">>) >>
          \o (IF Truthy(message.custom_instructions)
              THEN << <<"\n">> \o Paint("dim", <<"Custom instructions:">>),
                      Indented(message.custom_instructions.s, "cyan") >>
              ELSE << <<" ", " ", " ">> \o Paint("dim", <<"No custom instructions">>) >>)
          \o WhenSet(message.transcript_path,
                     <<"\n", " ", " ", " ">> \o Paint("dim", <<"Transcript:">>) \o <<" ">>
                       \o String(message.transcript_path))
          \o WorkingDirectoryLine(message),
        <<"\n">>))

\* the nine hook event names formatHookMessage routes
RecognizedHookEvents ==
  {"PreToolUse", "PostToolUse", "Notification", "UserPromptSubmit", "SessionStart",
   "SessionEnd", "Stop", "SubagentStop", "PreCompact"}

formatHookMessage(hookEventName, hookData) ==
  CASE hookEventName = "PreToolUse" -> formatPreToolUseHook(hookData)
    [] hookEventName = "PostToolUse" -> formatPostToolUseHook(hookData)
    [] hookEventName = "Notification" -> formatNotificationHook(hookData)
    [] hookEventName = "UserPromptSubmit" -> formatUserPromptSubmitHook(hookData)
    [] hookEventName = "SessionStart" -> formatSessionStartHook(hookData)
    [] hookEventName = "SessionEnd" -> formatSessionEndHook(hookData)
    [] hookEventName = "Stop" -> formatStopHook(hookData)
    [] hookEventName = "SubagentStop" -> formatSubagentStopHook(hookData)
    [] hookEventName = "PreCompact" -> formatPreCompactHook(hookData)
    [] OTHER -> Thrown("Error", <<"Unknown hook type: ", hookEventName>>)

---------------------------------------------------------------------------
(* formatMessage *)

IsStreamEvent_Never(message) == FALSE

IsStreamEvent(message) == message.type = "stream_event"

\* the switch on message.type, stream events apart
Dispatch(message) ==
  CASE message.type = "assistant" -> formatAssistantMessage(message)
    [] message.type = "user" -> formatUserMessage(message)
    [] message.type = "result" -> formatResultMessage(message)
    [] message.type = "system" -> formatSystemMessage(message)
    [] OTHER -> Rendering(Paint("red", <<DIAMOND, " ", "UNKNOWN">>),
                          <<"[Unknown message type: ", message.type, "]">>)

RendererOf(message) ==
  CASE message.type = "assistant" -> "formatAssistantMessage"
    [] message.type = "user" -> "formatUserMessage"
    [] message.type = "result" -> "formatResultMessage"
    [] message.type = "system" -> "formatSystemMessage"
    [] message.type = "stream_event" -> "formatStreamEvent"
    [] OTHER -> "default"

SkipBox_NoTrim(sb, c) == ~sb \/ c = <<>>

\* !showBox || !content || content.trim().length === 0
SkipBox(sb, c) == ~sb \/ c = <<>> \/ Len(trim(c)) = 0

Wrap(sb, h, c) == IF SkipBox(sb, c) THEN c ELSE createBox(h, c)

\* the whole call, as the shell uses it
formatMessage(message, sb) ==
  LET v == validateMessage(message)
  IN  IF v.kind = "error" THEN v
      ELSE IF IsStreamEvent(message) THEN formatStreamEvent(message)
      ELSE LET r == Dispatch(message)
           IN  IF r.ok THEN Returned(Wrap(sb, r.header, r.content)) ELSE r.error

---------------------------------------------------------------------------
(* The records the model draws *)

Obj(type) == [t |-> "object", type |-> type]

\* message payloads that are not objects
FalsyPayloads == {Undefined, Null, Bool(FALSE), Num(0), Str(<<>>)}

Flags == {Undefined, Bool(TRUE)}

TextBlock(text) == [t |-> "object", type |-> "text", text |-> text]
ImageBlock == [t |-> "object", type |-> "image"]
ToolResultBlock(id, isError, c) ==
  [t |-> "object", type |-> "tool_result", tool_use_id |-> Str(id), is_error |-> isError,
   content |-> c]

UserBlocks ==
  { TextBlock(<<"a">>), TextBlock(<<" ">>), ImageBlock,
    ToolResultBlock(<<"tool_1">>, Undefined, Str(<<"a">>)),
    ToolResultBlock(<<"tool_2">>, Bool(TRUE), Arr(<<TextBlock(<<"a">>), ImageBlock>>)),
    ToolResultBlock(<<"tool_3">>, Bool(FALSE), Undefined) }

UserContents ==
  {Undefined} \cup {Str(x) : x \in Texts} \cup {Arr(b) : b \in SeqsUpTo(UserBlocks, MaxBlocks)}

UserMsgs ==
  { [t |-> "object", type |-> "user", message |-> p, isReplay |-> r, isSynthetic |-> y] :
      p \in FalsyPayloads \cup {[t |-> "object", content |-> c] : c \in UserContents},
      r \in Flags, y \in Flags }

ToolUseBlock(name, in) == [t |-> "object", type |-> "tool_use", name |-> Str(name), input |-> in]
Params(entries) == [t |-> "object", entries |-> entries]

AssistantBlocks ==
  { TextBlock(<<"a">>), TextBlock(<<>>),
    ToolUseBlock(<<"Read">>, Undefined),
    ToolUseBlock(<<"Read">>, Params(<< << <<"file_path">>, Str(<<"a">>) >> >>)),
    ToolUseBlock(<<"Bash">>, Params(<< << <<"command">>, Str(<<"l", "s", "\n", "p", "w", "d">>) >> >>)),
    ToolUseBlock(<<"Run">>, Params(<< << <<"value">>, Null >>,
                                      << <<"list">>, Arr(<<Num(42), Bool(TRUE)>>) >> >>)) }

AssistantContents ==
  {Undefined, Str(<<"a">>)} \cup {Arr(b) : b \in SeqsUpTo(AssistantBlocks, MaxBlocks)}

Thinkings == {Undefined, Arr(<<>>), Arr(<<TextBlock(<<"a">>)>>)}

AssistantMsgs ==
  { [t |-> "object", type |-> "assistant", message |-> p] :
      p \in FalsyPayloads
            \cup {[t |-> "object", content |-> c, thinking |-> k] :
                    c \in AssistantContents, k \in Thinkings} }

Usage(cacheRead, cacheCreation) ==
  [t |-> "object", input_tokens |-> Num(1500), output_tokens |-> Num(50),
   cache_read_input_tokens |-> cacheRead, cache_creation_input_tokens |-> cacheCreation]

ModelUsage(entries) == [t |-> "object", entries |-> entries]

OneModel ==
  << << <<"model-a">>,
        [inputTokens |-> Num(1200), outputTokens |-> Num(40), cacheReadInputTokens |-> Num(7),
         cacheCreationInputTokens |-> Undefined, costUSD |-> Num(1234)] >> >>

OneDenial == <<[tool_name |-> <<"Bash">>, tool_use_id |-> <<"tool_9">>]>>

FullResult ==
  [subtype |-> Str(<<"success">>), result |-> Str(<<"a">>), duration_ms |-> Num(5000),
   duration_api_ms |-> Num(3000), num_turns |-> Num(3), total_cost_usd |-> Num(1230),
   usage |-> Usage(Undefined, Undefined), modelUsage |-> ModelUsage(<<>>),
   permission_denials |-> Arr(<<>>), session_id |-> Str(<<"session-123">>),
   uuid |-> Str(<<"uuid-1">>)]

\* the fields a drawn run summary may lack
DroppableFields ==
  {"duration_ms", "duration_api_ms", "num_turns", "total_cost_usd", "usage", "modelUsage",
   "permission_denials", "session_id", "uuid"}

Without(fields, absent) ==
  [f \in DOMAIN fields |-> IF f \in absent THEN Undefined ELSE fields[f]]

ResultFieldSets ==
  { Without(FullResult, absent) : absent \in SUBSET DroppableFields }
    \cup { [FullResult EXCEPT !["subtype"] = Str(<<x>>), !["result"] = Undefined] :
             x \in {"error_max_turns", "error_during_execution", "other"} }
    \cup { [FullResult EXCEPT !["total_cost_usd"] = Null],
           [FullResult EXCEPT !["usage"] = Null],
           [FullResult EXCEPT !["duration_ms"] = Null],
           [FullResult EXCEPT !["usage"] = Usage(Num(2000), Num(0))],
           [FullResult EXCEPT !["usage"] = Usage(Num(0), Num(1000000))],
           [FullResult EXCEPT !["modelUsage"] = ModelUsage(OneModel)],
           [FullResult EXCEPT !["permission_denials"] = Arr(OneDenial)] }

ResultMsgs == { [t |-> "object", type |-> "result", fields |-> f] : f \in ResultFieldSets }

Names == {Undefined, Arr(<<>>), Arr(<< <<"x">>, <<"y">> >>)}

Servers ==
  {Undefined, Arr(<<>>),
   Arr(<< [name |-> <<"s1">>, status |-> <<"connected">>],
          [name |-> <<"s2">>, status |-> <<"pending">>] >>)}

InitMsgs ==
  { [t |-> "object", type |-> "system", subtype |-> "init",
     claude_code_version |-> Str(<<"1.0.0">>), model |-> m, cwd |-> Str(<<"/home">>),
     permissionMode |-> Str(<<"default">>), apiKeySource |-> Str(<<"user">>),
     tools |-> tl, mcp_servers |-> sv, slash_commands |-> sc, agents |-> ag, skills |-> ag] :
      m \in {Undefined, Str(<<"model-a">>)}, tl \in Names, sv \in Servers, sc \in Names,
      ag \in {Undefined, Arr(<< <<"x">> >>)} }

CompactMsgs ==
  { [t |-> "object", type |-> "system", subtype |-> "compact_boundary", compact_metadata |-> c] :
      c \in {Undefined,
             [t |-> "object", trigger |-> Str(<<"auto">>), pre_tokens |-> Num(50000)],
             [t |-> "object", trigger |-> Str(<<"manual">>), pre_tokens |-> Undefined]} }

HookEvents == {Undefined, Str(<<"PreToolUse">>), Str(<<"Custom">>)}

\* a notification that carries none of the fields the hook formatters read
NoHookData ==
  [t |-> "object", tool_name |-> Undefined, tool_input |-> Undefined,
   tool_response |-> Undefined, cwd |-> Undefined, title |-> Undefined, message |-> Undefined,
   prompt |-> Undefined, source |-> Undefined, transcript_path |-> Undefined,
   permission_mode |-> Undefined, reason |-> Undefined, stop_hook_active |-> Undefined,
   trigger |-> Undefined, custom_instructions |-> Undefined]

HookMsgs ==
  { [type |-> "system", subtype |-> "hook_response",
     hook_name |-> Str(<<"my-hook">>), hook_event |-> e, stdout |-> o, stderr |-> r,
     exit_code |-> x, tool_name |-> Str(<<"Bash">>)] @@ NoHookData :
      e \in HookEvents, o \in {Undefined, Str(<<>>), Str(<<"a", "\n", "a">>)},
      r \in {Undefined, Str(<<"a">>)}, x \in {Undefined, Num(0), Num(1)} }

SystemMsgs ==
  InitMsgs \cup CompactMsgs \cup HookMsgs \cup {[t |-> "object", type |-> "system", subtype |-> "other"]}

Event(type) == [t |-> "object", type |-> type]

StreamEvents ==
  {Undefined}
    \cup { Event(x) : x \in {"message_start", "content_block_stop", "message_delta",
                             "message_stop", "ping"} }
    \cup { [t |-> "object", type |-> "content_block_start", content_block |-> b] :
             b \in {[type |-> "text"]}
                   \cup {[type |-> "tool_use", name |-> Str(n)] : n \in {<<"Read">>, <<HR>>, <<DIAMOND>>}} }
    \cup { [t |-> "object", type |-> "content_block_delta", delta |-> d] :
             d \in {[type |-> "text_delta", text |-> x] : x \in Texts}
                   \cup {[type |-> "input_json_delta", partial_json |-> x] : x \in Texts}
                   \cup {[type |-> "signature_delta"]} }

StreamMsgs == { [t |-> "object", type |-> "stream_event", event |-> e] : e \in StreamEvents }

UnknownMsgs == { [t |-> "object", type |-> x] : x \in {"unknown_type", "undefined"} }

Messages ==
  UserMsgs \cup AssistantMsgs \cup ResultMsgs \cup SystemMsgs \cup StreamMsgs \cup UnknownMsgs
    \cup {Null}

---------------------------------------------------------------------------
(* One call of formatMessage, step by step *)

Idle ==
  /\ pc = "idle"
  /\ msg = Null
  /\ showBox = TRUE
  /\ header = <<>>
  /\ content = <<>>
  /\ result = NoResult
  /\ calls = <<>>

ShellAtRest ==
  /\ argv = <<>>
  /\ cliPc = "start"
  /\ mode = "none"
  /\ source = <<>>
  /\ input = <<>>
  /\ stdout = <<>>
  /\ stderr = <<>>
  /\ exitCode = -1

\* no helper is being called on its own
NoHelperCall ==
  /\ callee = "none"
  /\ given = Null
  /\ answer = NoResult
  /\ logged = <<>>
  /\ settled = NoResult

Init ==
  /\ columns \in 0..MaxColumns
  /\ colorOn \in BOOLEAN
  /\ Idle
  /\ ShellAtRest
  /\ NoHelperCall

Call(m, sb) ==
  /\ pc = "idle"
  /\ pc' = "validate"
  /\ msg' = m
  /\ showBox' = sb
  /\ UNCHANGED <<header, content, result, calls>>
  /\ UNCHANGED <<envVars, cliVars, libVars>>

Validate ==
  /\ pc = "validate"
  /\ calls' = Append(calls, "validateMessage")
  /\ LET v == validateMessage(msg)
     IN  IF v.kind = "error"
         THEN pc' = "thrown" /\ result' = v
         ELSE pc' = "render" /\ UNCHANGED result
  /\ UNCHANGED <<msg, showBox, header, content>>
  /\ UNCHANGED <<envVars, cliVars, libVars>>

RenderStream_Boxed ==
  /\ pc = "render"
  /\ IsStreamEvent(msg)
  /\ calls' = Append(calls, RendererOf(msg))
  /\ LET r == formatStreamEvent(msg)
     IN  IF r.kind = "error"
         THEN pc' = "thrown" /\ result' = r /\ UNCHANGED <<header, content>>
         ELSE pc' = "box" /\ content' = r.str /\ UNCHANGED <<header, result>>
  /\ UNCHANGED <<msg, showBox>>
  /\ UNCHANGED <<envVars, cliVars, libVars>>

RenderStream ==
  /\ pc = "render"
  /\ IsStreamEvent(msg)
  /\ calls' = Append(calls, RendererOf(msg))
  /\ LET r == formatStreamEvent(msg)
     IN  /\ result' = r
         /\ pc' = IF r.kind = "error" THEN "thrown" ELSE "returned"
  /\ UNCHANGED <<msg, showBox, header, content>>
  /\ UNCHANGED <<envVars, cliVars, libVars>>

Render ==
  /\ pc = "render"
  /\ ~IsStreamEvent(msg)
  /\ calls' = Append(calls, RendererOf(msg))
  /\ LET r == Dispatch(msg)
     IN  IF r.ok
         THEN /\ pc' = "box"
              /\ header' = r.header
              /\ content' = r.content
              /\ UNCHANGED result
         ELSE /\ pc' = "thrown"
              /\ result' = r.error
              /\ UNCHANGED <<header, content>>
  /\ UNCHANGED <<msg, showBox>>
  /\ UNCHANGED <<envVars, cliVars, libVars>>

Box ==
  /\ pc = "box"
  /\ pc' = "returned"
  /\ result' = Returned(Wrap(showBox, header, content))
  /\ calls' = IF SkipBox(showBox, content) THEN calls ELSE Append(calls, "createBox")
  /\ UNCHANGED <<msg, showBox, header, content>>
  /\ UNCHANGED <<envVars, cliVars, libVars>>

\* the call is over; the next one starts from scratch
Finish ==
  /\ pc \in {"returned", "thrown"}
  /\ pc' = "idle"
  /\ msg' = Null
  /\ showBox' = TRUE
  /\ header' = <<>>
  /\ content' = <<>>
  /\ result' = NoResult
  /\ calls' = <<>>
  /\ UNCHANGED <<envVars, cliVars, libVars>>

Next ==
  \/ \E m \in Messages, sb \in BOOLEAN : Call(m, sb)
  \/ Validate
  \/ RenderStream
  \/ Render
  \/ Box
  \/ Finish

Spec == Init /\ [][Next]_vars

---------------------------------------------------------------------------
(* The command-line shell *)

NotJson == [t |-> "syntax-error"]

\* a line of input, or an argument: its text and what JSON.parse makes of it
Raw(text, json) == [raw |-> text, json |-> json]

ReplayUser ==
  [t |-> "object", type |-> "user", message |-> [t |-> "object", content |-> Str(<<"a">>)],
   isReplay |-> Bool(TRUE), isSynthetic |-> Undefined]

PlainUser ==
  [t |-> "object", type |-> "user", message |-> [t |-> "object", content |-> Str(<<"a">>)],
   isReplay |-> Undefined, isSynthetic |-> Undefined]

SpaceDelta ==
  [t |-> "object", type |-> "stream_event",
   event |-> [t |-> "object", type |-> "content_block_delta",
              delta |-> [type |-> "text_delta", text |-> <<" ">>]]]

TextDelta(text) ==
  [t |-> "object", type |-> "stream_event",
   event |-> [t |-> "object", type |-> "content_block_delta",
              delta |-> [type |-> "text_delta", text |-> text]]]

WordDelta == TextDelta(<<"a">>)
NewlineDelta == TextDelta(<<"\n">>)

NoUuidResult ==
  [t |-> "object", type |-> "result", fields |-> Without(FullResult, {"uuid"})]

NoContentAssistant ==
  [t |-> "object", type |-> "assistant",
   message |-> [t |-> "object", content |-> Undefined, thinking |-> Undefined]]

JsonLines ==
  { Raw(<<"{", "user", "}">>, PlainUser),
    Raw(<<"{", "replay", "}">>, ReplayUser),
    Raw(<<"{", "delta", "}">>, SpaceDelta),
    Raw(<<"{", "word", "}">>, WordDelta),
    Raw(<<"{", "newline", "}">>, NewlineDelta),
    Raw(<<"{", "result", "}">>, NoUuidResult),
    Raw(<<"{", "assistant", "}">>, NoContentAssistant) }

Lines == {Raw(<<>>, NotJson), Raw(<<" ">>, NotJson), Raw(<<"{", "bad">>, NotJson)} \cup JsonLines

HelpFlags == {<<"--help">>, <<"-h">>}

\* the paths drawn: one that does not exist, one that reads, one that exists and does not read
MissingPath == <<"missing.json">>
ReadablePath == <<"messages.json">>
UnreadablePath == <<"directory">>

Args ==
  {Raw(f, NotJson) : f \in HelpFlags \cup {MissingPath, ReadablePath, UnreadablePath}}
    \cup {l \in Lines : l.raw # <<>> /\ l.raw[1] = "{"}

existsSync(path) == path \in {ReadablePath, UnreadablePath}

IsBlank(line) == trim(line.raw) = <<>>

\* JSON.parse(line) then formatMessage(message)
ParseAndFormat(line) ==
  IF line.json = NotJson THEN Thrown("SyntaxError", <<"Unexpected token">>)
  ELSE formatMessage(line.json, TRUE)

\* what one pass of the loop body writes: [out, err]
LineOutcome_ReportOnStdout(line) ==
  LET r == ParseAndFormat(line)
  IN  IF r.kind = "error"
      THEN [out |-> << <<"Error parsing JSON: ">> \o r.message >>,
            err |-> << <<"Invalid line: ">> \o line.raw >>]
      ELSE IF trim(r.str) # <<>> THEN [out |-> <<r.str>>, err |-> <<>>]
      ELSE [out |-> <<>>, err |-> <<>>]

\* a test that takes only the space for whitespace
LineOutcome_SpacesOnly(line) ==
  LET r == ParseAndFormat(line)
  IN  IF r.kind = "error"
      THEN [out |-> <<>>,
            err |-> << <<"Error parsing JSON: ">> \o r.message, <<"Invalid line: ">> \o line.raw >>]
      ELSE IF \E i \in 1..Len(r.str) : r.str[i] # " " THEN [out |-> <<r.str>>, err |-> <<>>]
      ELSE [out |-> <<>>, err |-> <<>>]

LineOutcome_NoTrim(line) ==
  LET r == ParseAndFormat(line)
  IN  IF r.kind = "error"
      THEN [out |-> <<>>,
            err |-> << <<"Error parsing JSON: ">> \o r.message, <<"Invalid line: ">> \o line.raw >>]
      ELSE IF r.str # <<>> THEN [out |-> <<r.str>>, err |-> <<>>]
      ELSE [out |-> <<>>, err |-> <<>>]

LineOutcome(line) ==
  LET r == ParseAndFormat(line)
  IN  IF r.kind = "error"
      THEN [out |-> <<>>,
            err |-> << <<"Error parsing JSON: ">> \o r.message, <<"Invalid line: ">> \o line.raw >>]
      ELSE IF trim(r.str) # <<>> THEN [out |-> <<r.str>>, err |-> <<>>]
      ELSE [out |-> <<>>, err |-> <<>>]

HasHelpFlag(args) == \E i \in 1..Len(args) : args[i].raw \in HelpFlags

\* the branch main takes; its help branch is never reached, the top-level help handling
\* having ended the process before main is called
Branch_FirstArgument(args) ==
  IF Len(args) = 0 THEN "stdin"
  ELSE IF args[1].raw[1] = "{" THEN "inline"
  ELSE IF args[1].raw \in HelpFlags THEN "help"
  ELSE "file"

Branch(args) ==
  IF Len(args) = 0 THEN "stdin"
  ELSE IF Len(args) = 1
  THEN IF args[1].raw[1] = "{" THEN "inline"
       ELSE IF args[1].raw \in HelpFlags THEN "help"
       ELSE "file"
  ELSE "error"

HelpText == <<"claude-pretty-printer", "USAGE EXAMPLES", "INPUT METHODS", "MESSAGE FORMATS", "OPTIONS">>

CliInit ==
  /\ columns \in 0..MaxColumns
  /\ colorOn \in BOOLEAN
  /\ Idle
  /\ NoHelperCall
  /\ argv \in SeqsUpTo(Args, MaxArgs)
  /\ cliPc = "start"
  /\ mode = "none"
  /\ source = <<>>
  /\ input = <<>>
  /\ stdout = <<>>
  /\ stderr = <<>>
  /\ exitCode = -1

\* the module's top-level help handling, which runs before main() is called
ShowHelp ==
  /\ cliPc = "start"
  /\ HasHelpFlag(argv)
  /\ stdout' = stdout \o <<HelpText>>
  /\ exitCode' = 0
  /\ cliPc' = "exited"
  /\ UNCHANGED <<argv, mode, source, input, stderr>>
  /\ UNCHANGED <<envVars, fmtVars, libVars>>

CallMain ==
  /\ cliPc = "start"
  /\ ~HasHelpFlag(argv)
  /\ cliPc' = "main"
  /\ UNCHANGED <<argv, mode, source, input, stdout, stderr, exitCode>>
  /\ UNCHANGED <<envVars, fmtVars, libVars>>

\* main's catch: console.error(`Error: ${message}`); process.exit(1)
Fail(text) ==
  /\ stderr' = Append(stderr, <<"Error: ">> \o text)
  /\ exitCode' = 1
  /\ cliPc' = "exited"

MainStdin ==
  /\ cliPc = "main"
  /\ Branch(argv) = "stdin"
  /\ mode' = "stdin"
  /\ stdout' = Append(stdout, <<>>)
  /\ cliPc' = "stdin"
  /\ UNCHANGED <<argv, source, input, stderr, exitCode>>
  /\ UNCHANGED <<envVars, fmtVars, libVars>>

MainInline ==
  /\ cliPc = "main"
  /\ Branch(argv) = "inline"
  /\ mode' = "inline"
  /\ LET r == ParseAndFormat(argv[1])
     IN  IF r.kind = "error"
         THEN /\ stdout' = Append(stdout, <<>>)
              /\ Fail(<<"Error parsing JSON: ">> \o r.message)
         ELSE /\ stdout' = Append(stdout, <<>>) \o (IF trim(r.str) # <<>> THEN <<r.str>> ELSE <<>>)
              /\ exitCode' = 0
              /\ cliPc' = "exited"
              /\ UNCHANGED stderr
  /\ UNCHANGED <<argv, source, input>>
  /\ UNCHANGED <<envVars, fmtVars, libVars>>

MainFile ==
  /\ cliPc = "main"
  /\ Branch(argv) = "file"
  /\ mode' = "file"
  /\ stdout' = Append(stdout, <<>>)
  /\ IF ~existsSync(argv[1].raw)
     THEN /\ Fail(<<"File not found: ">> \o argv[1].raw)
          /\ UNCHANGED <<source, input>>
     ELSE IF argv[1].raw = UnreadablePath
     THEN /\ Fail(<<"Error reading file: ", "EISDIR">>)
          /\ UNCHANGED <<source, input>>
     ELSE \E lines \in SeqsUpTo(Lines, MaxLines) :
            /\ source' = lines
            /\ input' = SelectSeq(lines, LAMBDA line : ~IsBlank(line))
            /\ cliPc' = "file"
            /\ UNCHANGED <<stderr, exitCode>>
  /\ UNCHANGED argv
  /\ UNCHANGED <<envVars, fmtVars, libVars>>

MainTooMany ==
  /\ cliPc = "main"
  /\ Branch(argv) = "error"
  /\ mode' = "error"
  /\ Fail(<<"Too many arguments. Use --help for usage information.">>)
  /\ UNCHANGED <<argv, source, input, stdout>>
  /\ UNCHANGED <<envVars, fmtVars, libVars>>

\* one pass of processStdin's loop: the next line arrives
StdinLine(line) ==
  /\ cliPc = "stdin"
  /\ Len(source) < MaxLines
  /\ source' = Append(source, line)
  /\ IF IsBlank(line) THEN UNCHANGED <<stdout, stderr>>
     ELSE /\ stdout' = stdout \o LineOutcome(line).out
          /\ stderr' = stderr \o LineOutcome(line).err
  /\ UNCHANGED <<argv, cliPc, mode, input, exitCode>>
  /\ UNCHANGED <<envVars, fmtVars, libVars>>

\* the input stream ends: the loop and main return, the process ends
StdinEnd ==
  /\ cliPc = "stdin"
  /\ exitCode' = 0
  /\ cliPc' = "exited"
  /\ UNCHANGED <<argv, mode, source, input, stdout, stderr>>
  /\ UNCHANGED <<envVars, fmtVars, libVars>>

\* the input stream fails: the loop throws
StdinError ==
  /\ cliPc = "stdin"
  /\ Fail(<<"Error processing stdin: ", "read error">>)
  /\ UNCHANGED <<argv, mode, source, input, stdout>>
  /\ UNCHANGED <<envVars, fmtVars, libVars>>

\* one pass of processFile's loop
FileLine ==
  /\ cliPc = "file"
  /\ input # <<>>
  /\ input' = Tail(input)
  /\ stdout' = stdout \o LineOutcome(Head(input)).out
  /\ stderr' = stderr \o LineOutcome(Head(input)).err
  /\ UNCHANGED <<argv, cliPc, mode, source, exitCode>>
  /\ UNCHANGED <<envVars, fmtVars, libVars>>

\* an exit status that counts the lines that failed
FileEnd_FailOnBadLine ==
  /\ cliPc = "file"
  /\ input = <<>>
  /\ exitCode' = IF stderr = <<>> THEN 0 ELSE 1
  /\ cliPc' = "exited"
  /\ UNCHANGED <<argv, mode, source, input, stdout, stderr>>
  /\ UNCHANGED <<envVars, fmtVars, libVars>>

FileEnd ==
  /\ cliPc = "file"
  /\ input = <<>>
  /\ exitCode' = 0
  /\ cliPc' = "exited"
  /\ UNCHANGED <<argv, mode, source, input, stdout, stderr>>
  /\ UNCHANGED <<envVars, fmtVars, libVars>>

CliNext ==
  \/ ShowHelp
  \/ CallMain
  \/ MainStdin
  \/ MainInline
  \/ MainFile
  \/ MainTooMany
  \/ \E line \in Lines : StdinLine(line)
  \/ StdinEnd
  \/ StdinError
  \/ FileLine
  \/ FileEnd

CliSpec == CliInit /\ [][CliNext]_vars

---------------------------------------------------------------------------
(* The value formatter called on its own, as formatAssistantMessage calls  *)
(* it for each parameter of a tool invocation                              *)

Object(entries) == [t |-> "object", entries |-> entries]

\* a text of n characters in which neighbours differ
Chars(n) == [i \in 1..n |-> <<"a", "b", "c">>[(i % 3) + 1]]

Scalars == {Null, Undefined, Bool(TRUE), Bool(FALSE), Num(0), Num(42), Num(-7)}

StringValues ==
  {Str(Chars(n)) : n \in 0..MaxStringLen} \cup {Str(<<"\"">>), Str(<<"\\", "\n">>)}

\* what the drawn arrays and objects hold
Elements == {Num(1), Str(<<"a">>), Arr(<<Null>>)}

ArrayValues ==
  {Arr(a) : a \in SeqsUpTo(Elements, MaxArrayLen)}
    \cup {Arr([i \in 1..n |-> Str(Chars(MaxStringLen))]) : n \in 1..MaxArrayLen}

KeyOf(i) == <<"k">> \o Digits(i)

ObjectValues ==
  {Object([i \in 1..Len(vs) |-> <<KeyOf(i), vs[i]>>]) :
     vs \in SeqsUpTo(Elements \cup {Undefined}, MaxKeys)}
    \cup {Object(<< <<KeyOf(1), Str(Chars(n))>>, <<KeyOf(2), Num(1)>> >>) : n \in 0..MaxStringLen}
    \cup {Object(<< <<Chars(n), Num(1)>> >>) : n \in 1..MaxStringLen}

Values == Scalars \cup StringValues \cup ArrayValues \cup ObjectValues

\* how deeply arrays and objects are nested in a value
RECURSIVE Depth(_)
Depth(v) ==
  LET Deepest(ds) == IF ds = {} THEN 0 ELSE CHOOSE d \in ds : \A e \in ds : e <= d
  IN  CASE v.t = "array" -> 1 + Deepest({Depth(v.a[i]) : i \in 1..Len(v.a)})
        [] v.t = "object" -> 1 + Deepest({Depth(v.entries[i][2]) : i \in 1..Len(v.entries)})
        [] OTHER -> 0

ValueInit ==
  /\ columns = 0
  /\ colorOn = FALSE
  /\ Idle
  /\ ShellAtRest
  /\ callee = "formatToolParamValue"
  /\ given \in Values
  /\ answer = NoResult
  /\ logged = <<>>
  /\ settled = NoResult

\* formatToolParamValue(value)
FormatValue ==
  /\ callee = "formatToolParamValue"
  /\ answer = NoResult
  /\ answer' = Returned(formatToolParamValue(given))
  /\ UNCHANGED <<callee, given>>
  /\ UNCHANGED <<envVars, fmtVars, cliVars, logVars>>

\* the next parameter is the last one, held as the only property of an object
Deepen(key) ==
  /\ callee = "formatToolParamValue"
  /\ answer # NoResult
  /\ Depth(given) < MaxDepth
  /\ given' = Object(<< <<key, given>> >>)
  /\ answer' = NoResult
  /\ UNCHANGED callee
  /\ UNCHANGED <<envVars, fmtVars, cliVars, logVars>>

\* the next parameter is the last one, held as the only element of an array
Enclose ==
  /\ callee = "formatToolParamValue"
  /\ answer # NoResult
  /\ Depth(given) < MaxDepth
  /\ given' = Arr(<<given>>)
  /\ answer' = NoResult
  /\ UNCHANGED callee
  /\ UNCHANGED <<envVars, fmtVars, cliVars, logVars>>

ValueNext ==
  \/ FormatValue
  \/ \E key \in {<<"k">>, Chars(MaxStringLen)} : Deepen(key)
  \/ Enclose

ValueSpec == ValueInit /\ [][ValueNext]_vars

---------------------------------------------------------------------------
(* The hook formatter called on its own *)

HookCall(event, data) == [event |-> event, data |-> data]

Somewhere == {Undefined, Str(<<"/home">>)}

\* the tool responses a PostToolUse notification carries: texts of every length up to
\* MaxResponseLen, structures whose pretty-printed text is as long, and a few others
Responses ==
  {Undefined, Null, Num(42), Str(<<"a", "\n", "b">>), Arr(<<Num(1), Str(<<"a">>)>>), Object(<<>>)}
    \cup {Str(Chars(n)) : n \in 0..MaxResponseLen}
    \cup {Object(<< <<<<"c">>, Str(Chars(n))>> >>) : n \in 0..MaxResponseLen}

PostToolUseCalls ==
  { HookCall("PostToolUse",
             [NoHookData EXCEPT !.tool_name = Str(<<"Bash">>), !.cwd = w, !.tool_response = r]) :
      w \in Somewhere, r \in Responses }

OtherHookCalls ==
  { HookCall("PreToolUse",
             [NoHookData EXCEPT !.tool_name = Str(<<"Bash">>), !.cwd = w, !.tool_input = i]) :
      w \in Somewhere,
      i \in {Undefined, Str(<<"l", "s">>), Object(<< <<<<"c">>, Str(<<"l", "s">>)>> >>)} }
    \cup { HookCall("Notification", [NoHookData EXCEPT !.title = x, !.message = m, !.cwd = w]) :
             x \in {Undefined, Str(<<"t">>)}, w \in Somewhere,
             m \in {Undefined, Str(<<"a", "\n", "b">>), Num(5)} }
    \cup { HookCall("UserPromptSubmit", [NoHookData EXCEPT !.cwd = w, !.prompt = q]) :
             w \in Somewhere,
             q \in {Undefined, Num(5)}
                   \cup {Str(Chars(n)) : n \in {1, MaxPromptShown, MaxPromptShown + 1}} }
    \cup { HookCall("SessionStart",
                    [NoHookData EXCEPT !.source = x, !.permission_mode = m, !.cwd = w]) :
             x \in {Undefined} \cup {Str(<<n>>) : n \in {"startup", "resume", "clear", "compact",
                                                          "other"}},
             m \in {Undefined, Str(<<"default">>)}, w \in Somewhere }
    \cup { HookCall("SessionEnd",
                    [NoHookData EXCEPT !.reason = x, !.transcript_path = tp, !.cwd = w]) :
             x \in {Undefined, Str(<<"logout">>)}, tp \in {Undefined, Str(<<"/t.jsonl">>)},
             w \in Somewhere }
    \cup { HookCall(e, [NoHookData EXCEPT !.stop_hook_active = a, !.transcript_path = tp,
                                          !.cwd = w]) :
             e \in {"Stop", "SubagentStop"}, a \in {Undefined, Bool(TRUE), Bool(FALSE)},
             tp \in {Undefined, Str(<<"/t.jsonl">>)}, w \in Somewhere }
    \cup { HookCall("PreCompact",
                    [NoHookData EXCEPT !.trigger = x, !.custom_instructions = ci,
                                       !.transcript_path = tp, !.cwd = w]) :
             x \in {Undefined, Str(<<"manual">>), Str(<<"auto">>)},
             ci \in {Undefined, Str(<<"a", "\n", "b">>), Num(5)},
             tp \in {Undefined, Str(<<"/t.jsonl">>)}, w \in Somewhere }
    \cup { HookCall("Custom", NoHookData) }

HookCalls == PostToolUseCalls \cup OtherHookCalls

HookInit ==
  /\ columns = 0
  /\ colorOn \in BOOLEAN
  /\ Idle
  /\ ShellAtRest
  /\ callee = "formatHookMessage"
  /\ given \in HookCalls
  /\ answer = NoResult
  /\ logged = <<>>
  /\ settled = NoResult

\* formatHookMessage(hookEventName, hookData)
FormatHook ==
  /\ callee = "formatHookMessage"
  /\ answer = NoResult
  /\ answer' = formatHookMessage(given.event, given.data)
  /\ UNCHANGED <<callee, given>>
  /\ UNCHANGED <<envVars, fmtVars, cliVars, logVars>>

HookNext == FormatHook

HookSpec == HookInit /\ [][HookNext]_vars

---------------------------------------------------------------------------
(* Properties of formatMessage *)

Over == pc \in {"returned", "thrown"}
Validated == pc \notin {"idle", "validate"}
IsRecord(type) == msg.t = "object" /\ msg.type = type

\* the call threw out of validateMessage, before any renderer was entered
FailedValidation ==
  pc = "thrown" /\ result.kind = "error" /\ result.name = "Error" /\ calls = <<"validateMessage">>

AbsentAmong(fieldSet) == {f \in fieldSet : msg.fields[f] = Undefined}

\* the field names an error text lists between its opening phrase and the full stop
NamedFields(text) ==
  LET stop == CHOOSE k \in 1..Len(text) : text[k] = "." /\ \A j \in 1..(k - 1) : text[j] # "."
  IN  {text[i] : i \in 2..(stop - 1)} \ {", "}

RejectsExactly(fieldSet) ==
  (IsRecord("result") /\ Validated /\ AbsentAmong(fieldSet) # {})
    => /\ FailedValidation
       /\ result.message[1] = "Result messages require these fields: "
       /\ NamedFields(result.message) = AbsentAmong(fieldSet)

TurnRecord == msg.t = "object" /\ msg.type \in {"assistant", "user"}

\* C2, as stated: an assistant or user record fails validation, returning no string, when
\* its message payload is absent or null, and passes validation whenever it is present.
C2_AsStated ==
  (TurnRecord /\ Validated) => (FailedValidation <=> msg.message \in {Undefined, Null})

\* C2, amended: an assistant or user record fails validation, returning no string, exactly
\* when its message payload is absent, null, false, 0 or the empty string; with any other
\* payload validation passes.
C2_Payload ==
  (TurnRecord /\ Validated)
    => (FailedValidation
          <=> msg.message \in {Undefined, Null, Bool(FALSE), Num(0), Str(<<>>)})

C2_Witness ==
  /\ IsRecord("user")
  /\ msg.message = Str(<<>>)
  /\ FailedValidation

ExpectedWidth == IF columns = 0 THEN 80 ELSE columns

ExpectedRule ==
  IF colorOn THEN <<"ESC[dim">> \o [i \in 1..ExpectedWidth |-> HR] \o <<"ESC[/dim">>
  ELSE [i \in 1..ExpectedWidth |-> HR]

Boxed == ExpectedRule \o <<"\n">> \o header \o <<"\n">> \o content \o <<"\n">> \o ExpectedRule

KindHeader ==
  CASE msg.type = "assistant" -> "ASSISTANT"
    [] msg.type = "user" -> IF \E i \in 1..Len(header) : header[i] = "USER (Tool Results)"
                            THEN "USER (Tool Results)" ELSE "USER"
    [] msg.type = "result" -> "RESULT"
    [] msg.type = "system" -> "SYSTEM"
    [] OTHER -> "UNKNOWN"

HeaderOfKind ==
  \E colour \in {"blue", "green", "magenta", "yellow", "red"} :
    header = (IF colorOn THEN <<"ESC[" \o colour>> ELSE <<>>) \o <<DIAMOND, " ", KindHeader>>
               \o (IF colorOn THEN <<"ESC[/" \o colour>> ELSE <<>>)

BareOrBoxed(bare) ==
  (msg.t = "object" /\ msg.type # "stream_event" /\ pc = "returned")
    => IF bare THEN result = Returned(content)
       ELSE result = Returned(Boxed) /\ HeaderOfKind /\ result.str # content

\* C3, as stated: for a record that is not a stream event the bare content is returned
\* exactly when showBox is false or the content is empty; otherwise a rule, the header
\* of the kind, the content and a second rule are returned, in this order.
C3_AsStated == BareOrBoxed(~showBox \/ content = <<>>)

\* C3, amended: for a record that is not a stream event and that formatMessage returns a
\* string for, the bare content is returned exactly when showBox is false or the content
\* is empty or holds only whitespace; otherwise a rule, the header of the kind, the
\* content and a second rule are returned, in this order.
C3_BoxOrBare == BareOrBoxed(~showBox \/ \A i \in 1..Len(content) : content[i] \in {" ", "\n"})

C3_Witness ==
  /\ IsRecord("user")
  /\ pc = "returned"
  /\ showBox
  /\ content = <<" ", "\n">>
  /\ result = Returned(content)

\* C4, as stated: every user record with isReplay set yields exactly the empty string.
C4_AsStated ==
  (IsRecord("user") /\ msg.isReplay = Bool(TRUE) /\ Over) => result = Returned(<<>>)

\* C4, amended: every user record with isReplay set that passes validation (its message
\* payload is not absent, null, false, 0 or the empty string) yields exactly the empty
\* string, with no box and no header, whatever its content, isSynthetic and showBox are.
C4_Replay ==
  (/\ IsRecord("user")
   /\ msg.isReplay = Bool(TRUE)
   /\ msg.message \notin {Undefined, Null, Bool(FALSE), Num(0), Str(<<>>)}
   /\ Over)
    => result = Returned(<<>>) /\ calls = <<"validateMessage", "formatUserMessage">>

C4_Witness ==
  /\ IsRecord("user")
  /\ msg.isReplay = Bool(TRUE)
  /\ msg.isSynthetic = Bool(TRUE)
  /\ msg.message.t = "object"
  /\ msg.message.content = Str(<<"a", HR>>)
  /\ showBox
  /\ result = Returned(<<>>)

\* C5: for a stream event the call returns what the stream renderer returns, whatever
\* showBox is: both values of the flag give the same result and no box is made.
C5_StreamUnboxed ==
  (IsRecord("stream_event") /\ Over)
    => /\ result = formatStreamEvent(msg)
       /\ formatMessage(msg, TRUE) = result
       /\ formatMessage(msg, FALSE) = result
       /\ calls = <<"validateMessage", "formatStreamEvent">>

C5_Witness ==
  /\ IsRecord("stream_event")
  /\ showBox
  /\ result = Returned(<<"a", "\n">>)

\* the text a stream event carries: its delta's text or partial JSON, or its tool's name
Carried ==
  LET e == msg.event
  IN  CASE e.t = "object" /\ e.type = "content_block_delta" /\ e.delta.type = "text_delta" ->
             e.delta.text
        [] e.t = "object" /\ e.type = "content_block_delta" /\ e.delta.type = "input_json_delta" ->
             e.delta.partial_json
        [] e.t = "object" /\ e.type = "content_block_start" /\ e.content_block.type = "tool_use" ->
             e.content_block.name.s
        [] OTHER -> <<>>

\* C6, as stated: whatever a stream event carries, the returned string holds no
\* horizontal-rule character and no header marker.
C6_AsStated ==
  (IsRecord("stream_event") /\ pc = "returned")
    => ~Contains(result.str, HR) /\ ~Contains(result.str, DIAMOND)

\* C6, amended: the string returned for a stream event holds exactly as many
\* horizontal-rule characters and header markers as the text the event carries (its
\* delta's text or partial JSON, or its tool's name): formatMessage adds none.
C6_NoBoxMarker ==
  (IsRecord("stream_event") /\ pc = "returned")
    => /\ Count(result.str, HR) = Count(Carried, HR)
       /\ Count(result.str, DIAMOND) = Count(Carried, DIAMOND)

C6_Witness ==
  /\ IsRecord("stream_event")
  /\ pc = "returned"
  /\ showBox
  /\ Carried = <<HR, "a">>
  /\ Count(result.str, HR) = 1

---------------------------------------------------------------------------
(* Properties of the shell *)

NonBlank(lines) == SelectSeq(lines, LAMBDA line : trim(line.raw) # <<>>)

\* the lines the loop has taken so far, blank ones apart
Processed ==
  IF mode = "stdin" THEN NonBlank(source)
  ELSE IF mode = "file" THEN SubSeq(NonBlank(source), 1, Len(NonBlank(source)) - Len(input))
  ELSE <<>>

FailsParsing(line) == line.json = NotJson
FailsValidation(line) == ~FailsParsing(line) /\ validateMessage(line.json).kind = "error"
FailsRendering(line) ==
  ~FailsParsing(line) /\ ~FailsValidation(line) /\ formatMessage(line.json, TRUE).kind = "error"
LineFails(line) == FailsParsing(line) \/ FailsValidation(line) \/ FailsRendering(line)

HasInk(text) == \E i \in 1..Len(text) : text[i] \notin {" ", "\n"}

\* what a run over lines that all parse, validate and render writes
CleanOutput(lines) ==
  LET shown == SelectSeq(lines, LAMBDA line : HasInk(formatMessage(line.json, TRUE).str))
  IN  [i \in 1..Len(shown) |-> formatMessage(shown[i].json, TRUE).str]

\* the writes after the empty line main writes first
Written == Tail(stdout)

\* C7: in stdin and file mode a line that fails parsing or validation (or rendering) is
\* reported on the error stream, two entries naming it, and writes nothing to standard
\* output; the loop goes on: standard output is what the lines that do not fail would have
\* produced alone, and a file's lines are all taken before the process ends.
C7_FailingLineSkipped ==
  mode \in {"stdin", "file"}
    => LET bad == SelectSeq(Processed, LineFails)
           good == SelectSeq(Processed, LAMBDA line : ~LineFails(line))
       IN  /\ Written = CleanOutput(good)
           /\ Len(stderr) \in {2 * Len(bad), 2 * Len(bad) + 1}
           /\ \A i \in 1..Len(bad) :
                /\ stderr[2 * i - 1][1] = "Error parsing JSON: "
                /\ stderr[2 * i] = <<"Invalid line: ">> \o bad[i].raw
           /\ (cliPc \in {"stdin", "file"} => exitCode = -1 /\ Len(stderr) = 2 * Len(bad))
           /\ (cliPc = "exited" /\ mode = "file" /\ source # <<>> => exitCode = 0 /\ input = <<>>)

C7_Witness ==
  /\ mode = "stdin"
  /\ Len(source) = 3
  /\ FailsParsing(source[1]) /\ source[1].raw # <<>>
  /\ FailsValidation(source[2])
  /\ source[3].json = PlainUser
  /\ Len(stderr) = 4
  /\ Len(stdout) = 2

\* C8, as stated: in inline mode a parse or validation error ends the process with code 1
\* and no formatted record printed, and an argument that parses and validates ends it
\* with code 0.
C8_AsStated ==
  (mode = "inline" /\ cliPc = "exited")
    => IF FailsParsing(argv[1]) \/ FailsValidation(argv[1])
       THEN exitCode = 1 /\ stdout = << <<>> >>
       ELSE exitCode = 0

\* the records with one block for each line that renders non-empty
NonEmptyBlocks(lines) ==
  LET shown == SelectSeq(lines, LAMBDA line :
                 ~LineFails(line) /\ formatMessage(line.json, TRUE).str # <<>>)
  IN  [i \in 1..Len(shown) |-> formatMessage(shown[i].json, TRUE).str]

InkBlocks(lines) ==
  LET shown == SelectSeq(lines, LAMBDA line :
                 ~LineFails(line) /\ HasInk(formatMessage(line.json, TRUE).str))
  IN  [i \in 1..Len(shown) |-> formatMessage(shown[i].json, TRUE).str]

\* C9, as stated: in stdin and file mode standard output holds one block for each input
\* line whose record renders non-empty, in the order of the lines, blank lines ignored.
C9_AsStated == mode \in {"stdin", "file"} => Written = NonEmptyBlocks(Processed)

\* C9, amended: in stdin and file mode standard output holds, after the empty line written
\* at the start, one block for each input line whose record renders to a string with a
\* character that is not whitespace, in the order of the lines, blank lines ignored.
C9_OneBlockPerLine == mode \in {"stdin", "file"} => Written = InkBlocks(Processed)

C9_Witness ==
  /\ mode = "file"
  /\ cliPc = "exited"
  /\ Len(source) = 3
  /\ source[1].json = SpaceDelta
  /\ source[2].raw = <<" ">>
  /\ source[3].json = PlainUser
  /\ Len(stdout) = 2

ArgIsHelp(i) == argv[i].raw = <<"--help">> \/ argv[i].raw = <<"-h">>

\* C10, as stated: with more than one argument, whatever they are, the process exits
\* with code 1 and reads nothing; with none it enters stdin mode.
C10_AsStated ==
  /\ (Len(argv) > 1 /\ cliPc = "exited") => exitCode = 1 /\ source = <<>>
  /\ (Len(argv) = 0 /\ cliPc \notin {"start", "main"}) => mode = "stdin"

\* C10, amended: with more than one argument, none of them --help or -h, the process
\* exits with code 1 and no input record is read or formatted; with --help or -h among
\* them it prints the help and exits with code 0; with no argument it enters stdin mode.
C10_ArgumentCount ==
  /\ Len(argv) > 1 => source = <<>> /\ mode \in {"none", "error"}
  /\ (Len(argv) > 1 /\ cliPc = "exited" /\ \A i \in 1..Len(argv) : ~ArgIsHelp(i))
       => exitCode = 1 /\ stdout = <<>> /\ Len(stderr) = 1
  /\ (Len(argv) > 1 /\ cliPc = "exited" /\ \E i \in 1..Len(argv) : ArgIsHelp(i))
       => exitCode = 0 /\ stdout = <<HelpText>> /\ stderr = <<>>
  /\ (Len(argv) = 0 /\ cliPc \notin {"start", "main"}) => mode = "stdin"

C10_Witness ==
  /\ Len(argv) = 2
  /\ argv[1].json = PlainUser
  /\ argv[2].raw = ReadablePath
  /\ cliPc = "exited"
  /\ exitCode = 1

---------------------------------------------------------------------------
(* Totality of formatMessage on validated records *)

\* the call got past validateMessage
PassedValidation == Over /\ ~FailedValidation

\* C11: every record that passes validation, records of the system, stream_event and
\* unrecognized kinds included, makes formatMessage return a string; it never fails.
C11_AsStated == PassedValidation => pc = "returned" /\ result.kind = "string"

---------------------------------------------------------------------------
(* The header of a user turn *)

\* formatUserMessage has produced a header for a user record that is not a replay
UserRendered ==
  /\ IsRecord("user")
  /\ ~Truthy(msg.isReplay)
  /\ pc \in {"box", "returned"}

\* the content of the user record is an array with at least one tool_result block
CarriesToolResult ==
  /\ msg.message.t = "object"
  /\ msg.message.content.t = "array"
  /\ \E i \in 1..Len(msg.message.content.a) : msg.message.content.a[i].type = "tool_result"

InGreen(label) ==
  IF colorOn THEN <<"ESC[green", DIAMOND, " ", label, "ESC[/green">> ELSE <<DIAMOND, " ", label>>

\* C12: for every user record that is not a replay, the header is the
\* "USER (Tool Results)" header if and only if the content is an array containing at
\* least one tool_result block; otherwise it is the plain "USER" header.
C12_UserHeader ==
  UserRendered =>
    /\ header \in {InGreen("USER (Tool Results)"), InGreen("USER")}
    /\ header = InGreen("USER (Tool Results)") <=> CarriesToolResult

C12_Witness ==
  /\ UserRendered
  /\ pc = "box"
  /\ msg.message.content.t = "array"
  /\ Len(msg.message.content.a) = 2
  /\ msg.message.content.a[1].type = "text"
  /\ msg.message.content.a[2].type = "tool_result"
  /\ header = InGreen("USER (Tool Results)")

---------------------------------------------------------------------------
(* Properties of the value formatter *)

\* formatToolParamValue has returned for a value of the given type
Formatted(type) ==
  /\ callee = "formatToolParamValue"
  /\ answer.kind = "string"
  /\ given.t = type

Ellipsis == <<".", ".", ".">>

\* C13: a string of length L <= 100 is returned verbatim between two quote characters;
\* a string of length L > 100 is returned as its first 97 characters followed by a
\* three-character ellipsis, between two quote characters, 102 characters in all; the
\* output is never longer than the quoted input.
C13_StringTruncation ==
  Formatted("string") =>
    LET L == Len(given.s)
        out == answer.str
    IN  /\ L <= 100 => out = <<"\"">> \o given.s \o <<"\"">>
        /\ L > 100 => /\ Len(out) = 102
                      /\ out[1] = "\"" /\ out[102] = "\""
                      /\ \A i \in 1..97 : out[i + 1] = given.s[i]
                      /\ SubSeq(out, 99, 101) = Ellipsis
        /\ Len(out) <= L + 2

C13_Witness ==
  /\ Formatted("string")
  /\ Len(given.s) = 101
  /\ Len(answer.str) = 102
  /\ answer.str[98] = given.s[97]
  /\ answer.str[99] = "."

\* the renderings of the first n elements of the array, joined by comma and space
Rendered(n) == join([i \in 1..n |-> formatToolParamValue(given.a[i])], <<",", " ">>)

\* C14: an array of length n is rendered as "[]" when n = 0, as the bracketed,
\* comma-joined renderings of all its elements in order when 1 <= n <= 3, and as the
\* renderings of its first 3 elements in order followed by "+N more" with N = n - 3
\* when n > 3.
C14_ArrayElision ==
  Formatted("array") =>
    LET n == Len(given.a)
        out == answer.str
    IN  /\ n = 0 => out = <<"[", "]">>
        /\ (1 <= n /\ n <= 3) => out = <<"[">> \o Rendered(n) \o <<"]">>
        /\ n > 3 => out = <<"[">> \o Rendered(3) \o <<",", " ">> \o Ellipsis \o <<" ", "+">>
                            \o Digits(n - 3) \o <<" ", "m", "o", "r", "e", "]">>

C14_Witness ==
  /\ Formatted("array")
  /\ given = Arr(<<Num(1), Str(<<"a">>), Arr(<<Null>>), Num(1), Num(1)>>)
  /\ answer.str = <<"[", "1", ",", " ", "\"", "a", "\"", ",", " ", "[", "n", "u", "l", "l", "]",
                    ",", " ", ".", ".", ".", " ", "+", "2", " ", "m", "o", "r", "e", "]">>

\* C15: an object with k keys is rendered as "{}" when k = 0, as "{ key: value }" with
\* the value rendered recursively when k = 1, and when k >= 2 as its compact JSON text
\* if that text has at most 80 characters and as "{ k properties }" otherwise.
C15_ObjectSummary ==
  Formatted("object") =>
    LET k == Len(given.entries)
        out == answer.str
        json == JSONstringify(given, 0)
    IN  /\ k = 0 => out = <<"{", "}">>
        /\ k = 1 => out = <<"{", " ">> \o given.entries[1][1] \o <<":", " ">>
                            \o formatToolParamValue(given.entries[1][2]) \o <<" ", "}">>
        /\ (k >= 2 /\ length(json) <= 80) => out = json
        /\ (k >= 2 /\ length(json) > 80) =>
             out = <<"{", " ">> \o Digits(k)
                     \o <<" ", "p", "r", "o", "p", "e", "r", "t", "i", "e", "s", " ", "}">>

\* an object whose compact JSON text is one character too long, summarised
C15_Witness ==
  /\ Formatted("object")
  /\ Len(given.entries) = 2
  /\ length(JSONstringify(given, 0)) = 81
  /\ answer.str = <<"{", " ", "2", " ", "p", "r", "o", "p", "e", "r", "t", "i", "e", "s", " ", "}">>
  /\ formatToolParamValue(Object(<< <<KeyOf(1), Num(1)>>, <<KeyOf(2), Str(<<"a", "\"">>)>> >>))
       = <<"{", "\"", "k", "1", "\"", ":", "1", ",", "\"", "k", "2", "\"", ":",
           "\"", "a", "\\", "\"", "\"", "}">>

\* the longest rendering of a value that holds no array and no object inside another:
\* an array of more than three strings of more than 100 characters each
SizeCap ==
  LET longString == 97 + 3 + 2
      countDigits == 10     \* an array holds fewer than 2^32 elements
  IN  1 + 3 * longString + 2 * 2 + 7 + countDigits + 6

\* C16: the value formatter is size-capped: whatever the nesting depth and the sizes of
\* keys and elements are, the output is never longer than one fixed bound.
C16_AsStated ==
  (callee = "formatToolParamValue" /\ answer.kind = "string") => length(answer.str) <= SizeCap

---------------------------------------------------------------------------
(* Hook responses in formatMessage *)

IsHookResponse == IsRecord("system") /\ msg.subtype = "hook_response"

\* the record's hook_event is one of the nine names formatHookMessage routes
RecognizedEvent ==
  /\ msg.hook_event.t = "string"
  /\ Len(msg.hook_event.s) = 1
  /\ msg.hook_event.s[1] \in RecognizedHookEvents

\* C17: for a hook_response record whose hook_event is one of the nine recognized names,
\* the content formatMessage produces is the lifecycle renderer's output for that event,
\* not the generic "Hook: name (event)" rendering.
C17_AsStated ==
  (IsHookResponse /\ RecognizedEvent /\ Over) =>
    /\ pc = "returned"
    /\ content = formatHookMessage(msg.hook_event.s[1], msg).str

InStyle(style, text) ==
  IF colorOn THEN <<"ESC[" \o style>> \o text \o <<"ESC[/" \o style>> ELSE text

\* the sequences of a sequence, one after the other
RECURSIVE Flat(_)
Flat(seqs) ==
  IF Len(seqs) = 0 THEN <<>>
  ELSE IF Len(seqs) = 1 THEN seqs[1]
  ELSE LET half == Len(seqs) \div 2
       IN  Flat(SubSeq(seqs, 1, half)) \o Flat(SubSeq(seqs, half + 1, Len(seqs)))

\* two spaces before each line of a text
EachLineIndented(text) ==
  <<" ", " ">>
    \o Flat([i \in 1..Len(text) |-> IF text[i] = "\n" THEN <<"\n", " ", " ">> ELSE <<text[i]>>])

\* the generic rendering of the hook_response record: the "Hook: name (label)" line,
\* then the stdout, stderr and exit-code sections that are present
GenericRendering(label) ==
  <<"\n">> \o InStyle("cyan", <<"GEAR">>) \o <<" ">> \o InStyle("bold", <<"Hook:">>)
    \o <<" ">> \o msg.hook_name.s \o <<" ">> \o InStyle("dim", <<"(">> \o label \o <<")">>)
    \o (IF msg.stdout.t = "string" /\ msg.stdout.s # <<>>
        THEN <<"\n", "\n">> \o InStyle("dim", <<"stdout:">>) \o <<"\n">>
               \o EachLineIndented(msg.stdout.s)
        ELSE <<>>)
    \o (IF msg.stderr.t = "string" /\ msg.stderr.s # <<>>
        THEN <<"\n", "\n">> \o InStyle("dim", <<"stderr:">>) \o <<"\n">>
               \o InStyle("red", EachLineIndented(msg.stderr.s))
        ELSE <<>>)
    \o (IF msg.exit_code.t = "number"
        THEN <<"\n", "\n">>
               \o (IF msg.exit_code.n = 0 THEN InStyle("green", <<"CHECK">>)
                   ELSE InStyle("red", <<"CROSS">>))
               \o <<" ">> \o InStyle("dim", <<"Exit code:">>) \o <<" ", ToString(msg.exit_code.n)>>
        ELSE <<>>)

EventLabel == IF msg.hook_event.t = "string" THEN msg.hook_event.s ELSE <<"undefined">>

C19_AsStated ==
  (IsHookResponse /\ msg.hook_event = Undefined /\ Over) =>
    /\ pc = "returned"
    /\ content = GenericRendering(<<"unknown">>)

---------------------------------------------------------------------------
(* Properties of the hook formatters *)

\* formatHookMessage has rendered a PostToolUse notification that carries a tool response
PostToolUseRendered ==
  /\ callee = "formatHookMessage"
  /\ given.event = "PostToolUse"
  /\ given.data.tool_response # Undefined
  /\ answer.kind = "string"

\* the text the tool response renders to: itself if a string, else its pretty-printed JSON
ResponseText ==
  IF given.data.tool_response.t = "string" THEN given.data.tool_response.s
  ELSE JSONstringify(given.data.tool_response, 2)

ColourCodes == {"ESC[gray", "ESC[/gray", "ESC[dim", "ESC[/dim"}

\* what the output shows after the "Tool response:" line, colour codes apart
ShownResponse ==
  LET out == answer.str
      label == CHOOSE i \in 1..Len(out) : out[i] = "Tool response:"
      lineStart == CHOOSE i \in (label + 1)..Len(out) :
                     out[i] = "\n" /\ \A j \in (label + 1)..(i - 1) : out[j] # "\n"
  IN  SelectSeq(SubSeq(out, lineStart + 1, Len(out)), LAMBDA tok : tok \notin ColourCodes)

ShownCap == 2 + 3 * 500 + 1

---------------------------------------------------------------------------
(* formatMessage called again and again.  The first call that ends is      *)
(* remembered (its arguments in given, its outcome in answer), and every    *)
(* later call is compared with it.                                          *)

UserRecord(c, replay, synthetic) ==
  [t |-> "object", type |-> "user", message |-> [t |-> "object", content |-> c],
   isReplay |-> replay, isSynthetic |-> synthetic]

AssistantRecord(c, k) ==
  [t |-> "object", type |-> "assistant", message |-> [t |-> "object", content |-> c, thinking |-> k]]

\* one record or more for every renderer and for every way a call ends
RepeatedMessages ==
  { Null,
    UserRecord(Str(<<"a">>), Undefined, Bool(TRUE)),
    UserRecord(Arr(<<ToolResultBlock(<<"tool_1">>, Undefined, Str(<<"a">>))>>), Undefined, Undefined),
    UserRecord(Str(<<"a">>), Bool(TRUE), Undefined),
    [t |-> "object", type |-> "user", message |-> Undefined, isReplay |-> Undefined,
     isSynthetic |-> Undefined],
    AssistantRecord(Arr(<<TextBlock(<<"a">>),
                          ToolUseBlock(<<"Read">>, Params(<< << <<"file_path">>, Str(<<"a">>) >> >>))>>),
                    Arr(<<TextBlock(<<"a">>)>>)),
    AssistantRecord(Undefined, Undefined),
    [t |-> "object", type |-> "result", fields |-> FullResult],
    [t |-> "object", type |-> "system", subtype |-> "compact_boundary",
     compact_metadata |-> [t |-> "object", trigger |-> Str(<<"auto">>), pre_tokens |-> Num(50000)]],
    [type |-> "system", subtype |-> "hook_response", hook_name |-> Str(<<"my-hook">>),
     hook_event |-> Str(<<"PreToolUse">>), stdout |-> Str(<<"a">>), stderr |-> Undefined,
     exit_code |-> Num(0), tool_name |-> Str(<<"Bash">>)] @@ NoHookData,
    [t |-> "object", type |-> "stream_event",
     event |-> [t |-> "object", type |-> "content_block_delta",
                delta |-> [type |-> "text_delta", text |-> <<"a">>]]],
    [t |-> "object", type |-> "unknown_type"] }

SameInput == msg = given.message /\ showBox = given.showBox

\* formatMessage returns or throws: the caller has the outcome
Return ==
  /\ pc \in {"returned", "thrown"}
  /\ IF callee = "none"
     THEN /\ callee' = "formatMessage"
          /\ given' = [message |-> msg, showBox |-> showBox, between |-> FALSE]
          /\ answer' = result
     ELSE /\ given' = [given EXCEPT !.between = @ \/ ~SameInput]
          /\ UNCHANGED <<callee, answer>>
  /\ pc' = "idle"
  /\ msg' = Null
  /\ showBox' = TRUE
  /\ header' = <<>>
  /\ content' = <<>>
  /\ result' = NoResult
  /\ calls' = <<>>
  /\ UNCHANGED <<envVars, cliVars, logVars>>

RepeatNext ==
  \/ \E m \in RepeatedMessages, sb \in BOOLEAN : Call(m, sb)
  \/ Validate
  \/ RenderStream
  \/ Render
  \/ Box
  \/ Return

RepeatSpec == Init /\ [][RepeatNext]_vars

---------------------------------------------------------------------------
(* Determinism of formatMessage *)

---------------------------------------------------------------------------
(* Logging hooks (src/src/hooks.ts).  A hooks configuration is an object    *)
(* whose keys are hook types; a callback is a function value, and a logging *)
(* hook carries what its closure captured.  The property names of an        *)
(* object are strings of one token.                                         *)

Callback(name) == [t |-> "function", name |-> name]

LoggingHook(hookType, formatted, logger) ==
  [t |-> "function", name |-> "loggingHook", hookType |-> hookType, formatted |-> formatted,
   logger |-> logger]

ConsoleLog == Callback("console.log")

MatchAll == Str(<<".", "*">>)

DEFAULT_HOOK_TYPES_NoPreCompact ==
  << <<"PostToolUse">>, <<"PreToolUse">>, <<"Notification">>, <<"UserPromptSubmit">>,
     <<"SessionStart">>, <<"SessionEnd">>, <<"Stop">>, <<"SubagentStop">> >>

DEFAULT_HOOK_TYPES ==
  << <<"PostToolUse">>, <<"PreToolUse">>, <<"Notification">>, <<"UserPromptSubmit">>,
     <<"SessionStart">>, <<"SessionEnd">>, <<"Stop">>, <<"SubagentStop">>, <<"PreCompact">> >>

\* a destructuring default: { x = d } = options
Default(v, d) == IF v.t = "undefined" THEN d ELSE v

\* a || b
Or(a, b) == IF Truthy(a) THEN a ELSE b

\* a ?? b
Nullish(a, b) == IF a.t \in {"undefined", "null"} THEN b ELSE a

\* object?.key: undefined unless object is an object with that property
Get(object, key) ==
  IF object.t = "object" /\ \E i \in 1..Len(object.entries) : object.entries[i][1] = key
  THEN object.entries[CHOOSE i \in 1..Len(object.entries) : object.entries[i][1] = key][2]
  ELSE Undefined

\* the keys of hooks after `for (const hookType of hookTypes) hooks[hookType] = ...`:
\* each listed type once, where it was first assigned
RECURSIVE AssignedKeys(_)
AssignedKeys(hookTypes) ==
  IF hookTypes = <<>> THEN <<>>
  ELSE LET front == AssignedKeys(SubSeq(hookTypes, 1, Len(hookTypes) - 1))
           last == hookTypes[Len(hookTypes)]
       IN  IF \E i \in 1..Len(front) : front[i] = last THEN front ELSE Append(front, last)

createLoggingHooks(options) ==
  LET matcher == Default(options.matcher, MatchAll)
      formatted == Default(options.formatted, Bool(TRUE))
      logger == Default(options.logger, ConsoleLog)
      hookTypes == Default(options.hookTypes, Arr(DEFAULT_HOOK_TYPES))
      keys == AssignedKeys(hookTypes.a)
  IN  Object([i \in 1..Len(keys) |->
                <<keys[i],
                  Arr(<<[t |-> "object", matcher |-> matcher,
                         hooks |-> Arr(<<LoggingHook(keys[i], formatted, logger)>>)]>>)>>])

\* createLoggingHooks({ ...options, hookTypes: [hookType] })
createSingleLoggingHook(hookType, options) ==
  createLoggingHooks([options EXCEPT !.hookTypes = Arr(<<hookType>>)])

\* matcher.hooks || []
existingHooks(matcher) == IF Truthy(matcher.hooks) THEN matcher.hooks.a ELSE <<>>

\* [...rest, first]
Spread_Append(first, rest) == [array |-> rest \o <<first>>, rest |-> rest]

\* rest.unshift(first): the array made is rest itself
Spread_Unshift(first, rest) == [array |-> <<first>> \o rest, rest |-> <<first>> \o rest]

\* [first, ...rest]: the array made, and rest as it is afterwards
Spread(first, rest) == [array |-> <<first>> \o rest, rest |-> rest]

\* the callback of hookMatchers.map: the matcher made, and the given matcher as it is afterwards
EnhanceMatcher(hookType, matcher, formatted, logger) ==
  LET combinedHooks == Spread(LoggingHook(hookType, formatted, logger), existingHooks(matcher))
  IN  [made |-> [t |-> "object", matcher |-> Or(matcher.matcher, MatchAll),
                 hooks |-> Arr(combinedHooks.array)],
       left |-> IF Truthy(matcher.hooks) THEN [matcher EXCEPT !.hooks = Arr(combinedHooks.rest)]
                ELSE matcher]

\* what withLogging returns, and hooksConfig as the call leaves it
withLogging(hooksConfig, options) ==
  LET formatted == Default(options.formatted, Bool(TRUE))
      logger == Default(options.logger, ConsoleLog)
      Enhanced(e) ==
        [j \in 1..Len(e[2].a) |-> EnhanceMatcher(e[1], e[2].a[j], formatted, logger)]
      present == SelectSeq(hooksConfig.entries, LAMBDA e : Truthy(e[2]))
  IN  [returned |->
         Object([i \in 1..Len(present) |->
                   <<present[i][1],
                     Arr([j \in 1..Len(present[i][2].a) |-> Enhanced(present[i])[j].made])>>]),
       hooksConfig |->
         Object([i \in 1..Len(hooksConfig.entries) |->
                   LET e == hooksConfig.entries[i]
                   IN  IF Truthy(e[2])
                       THEN <<e[1], Arr([j \in 1..Len(e[2].a) |-> Enhanced(e)[j].left])>>
                       ELSE e])]

\* process.cwd()
ProcessCwd == Str(<<"/", "w", "o", "r", "k">>)

\* the fields createSyntheticHookMessage adds for the hook type
HookSpecificData(hookType, hookInput, hookOptions) ==
  LET transcript == Or(Get(hookInput, <<"transcriptPath">>), Get(hookOptions, <<"transcriptPath">>))
  IN  CASE hookType = <<"PreToolUse">> ->
             [tool_name |-> Or(Get(hookInput, <<"name">>), Str(<<"unknown">>)),
              tool_input |-> Or(Get(hookInput, <<"input">>), hookInput)]
        [] hookType = <<"PostToolUse">> ->
             [tool_name |-> Or(Get(hookInput, <<"name">>), Str(<<"unknown">>)),
              tool_input |-> Get(hookInput, <<"input">>),
              tool_response |-> Or(Get(hookInput, <<"response">>), hookInput)]
        [] hookType = <<"Notification">> ->
             [title |-> Get(hookInput, <<"title">>),
              message |-> Or(Get(hookInput, <<"message">>), hookInput)]
        [] hookType = <<"UserPromptSubmit">> ->
             [prompt |-> Or(Get(hookInput, <<"prompt">>), hookInput)]
        [] hookType = <<"SessionStart">> ->
             [source |-> Or(Get(hookInput, <<"source">>), Str(<<"unknown">>)),
              transcript_path |-> transcript,
              permission_mode |-> Or(Get(hookInput, <<"permissionMode">>),
                                     Get(hookOptions, <<"permissionMode">>))]
        [] hookType = <<"SessionEnd">> ->
             [reason |-> Or(Get(hookInput, <<"reason">>), Str(<<"unknown">>)),
              transcript_path |-> transcript]
        [] hookType \in {<<"Stop">>, <<"SubagentStop">>} ->
             [stop_hook_active |-> Nullish(Get(hookInput, <<"stopHookActive">>), Bool(TRUE)),
              transcript_path |-> transcript]
        [] hookType = <<"PreCompact">> ->
             [trigger |-> Or(Get(hookInput, <<"trigger">>), Str(<<"manual">>)),
              custom_instructions |-> Or(Get(hookInput, <<"customInstructions">>), Null),
              transcript_path |-> transcript]
        [] OTHER -> [exit_code |-> Num(0)]

\* the message, or the TypeError of reading a property of a null or undefined hookOptions
createSyntheticHookMessage(hookType, hookInput, toolUseID, hookOptions) ==
  IF hookOptions.t \in {"undefined", "null"}
  THEN Thrown("TypeError", <<"Cannot read properties of undefined (reading 'sessionId')">>)
  ELSE [kind |-> "message",
        message |->
          [type |-> "system", subtype |-> "hook_response",
           uuid |-> Str(<<"00000000-0000-0000-0000-000000000000">>),
           session_id |-> Or(Get(hookOptions, <<"sessionId">>), Str(<<"unknown">>)),
           hook_name |-> Str(hookType), hook_event |-> Str(hookType),
           cwd |-> Or(Get(hookOptions, <<"cwd">>), ProcessCwd), exit_code |-> Num(0),
           stdout |-> Undefined, stderr |-> Undefined]
            @@ HookSpecificData(hookType, hookInput, hookOptions) @@ NoHookData]

\* the body of a logging hook: the calls it makes to its logger and what its promise
\* settles to
LoggingHookBody(hook, hookInput, toolUseID, hookOptions) ==
  LET syntheticMessage == createSyntheticHookMessage(hook.hookType, hookInput, toolUseID, hookOptions)
      formattedOutput == formatMessage(syntheticMessage.message, TRUE)
      raw == Object(<< <<<<"hookType">>, Str(hook.hookType)>>, <<<<"input">>, hookInput>>,
                       <<<<"toolUseID">>, toolUseID>>, <<<<"options">>, hookOptions>> >>)
      Logs(text) == <<[logger |-> hook.logger.name, text |-> text]>>
      Resolves == [kind |-> "resolved", value |-> Object(<<>>)]
      Rejects(error) == [kind |-> "rejected", value |-> error]
  IN  IF syntheticMessage.kind = "error"
      THEN [logs |-> <<>>, promise |-> Rejects(syntheticMessage)]
      ELSE IF Truthy(hook.formatted)
      THEN IF formattedOutput.kind = "error"
           THEN [logs |-> <<>>, promise |-> Rejects(formattedOutput)]
           ELSE [logs |-> Logs(formattedOutput.str), promise |-> Resolves]
      ELSE [logs |-> Logs(JSONstringify(raw, 2)), promise |-> Resolves]

---------------------------------------------------------------------------
(* The logging hooks made and invoked by a caller *)

LoggingOptions(matcher, formatted, logger, hookTypes) ==
  [t |-> "object", matcher |-> matcher, formatted |-> formatted, logger |-> logger,
   hookTypes |-> hookTypes]

\* the formatted and logger options a caller gives
OutputOptions ==
  { <<f, l>> : f \in {Undefined, Bool(TRUE), Bool(FALSE)}, l \in {Undefined, Callback("mockLogger")} }

Matcher(pattern, hooks) == [t |-> "object", matcher |-> pattern, hooks |-> hooks]

ReadMatcher == Matcher(Str(<<"R", "e", "a", "d">>), Arr(<<Callback("customHook")>>))
WriteMatcher == Matcher(Str(<<"W", "r", "i", "t", "e">>), Arr(<<Callback("customHook"), Callback("anotherHook")>>))
BlankMatcher == Matcher(Str(<<>>), Arr(<<>>))
BareMatcher == Matcher(Undefined, Undefined)

\* what a hooks configuration holds for a hook type
MatcherLists ==
  { Undefined, Null, Arr(<<>>), Arr(<<BareMatcher>>), Arr(<<ReadMatcher, BlankMatcher>>),
    Arr(<<WriteMatcher, ReadMatcher, BareMatcher>>) }

HooksConfigs ==
  { Object(<<>>) }
    \cup { Object(<< <<k, v>> >>) : k \in {<<"PreToolUse">>, <<"Notification">>}, v \in MatcherLists }
    \cup { Object(<< <<k[1], v>>, <<k[2], w>> >>) :
             k \in { << <<"PreToolUse">>, <<"Notification">> >>,
                     << <<"UserPromptSubmit">>, <<"PreToolUse">> >> },
             v \in MatcherLists, w \in MatcherLists }

HookTypeLists ==
  { Undefined, Arr(<<>>), Arr(<< <<"PreToolUse">>, <<"PostToolUse">> >>),
    Arr(<< <<"Stop">>, <<"Notification">>, <<"Stop">> >>) }

LibraryCalls ==
  { [fn |-> "withLogging", hooksConfig |-> c,
     options |-> LoggingOptions(Undefined, o[1], o[2], Undefined)] :
      c \in HooksConfigs, o \in OutputOptions }
    \cup { [fn |-> "createLoggingHooks", options |-> LoggingOptions(m, o[1], o[2], ts)] :
             m \in {Undefined, Str(<<>>), Str(<<"R", "e", "a", "d", "|", "W", "r", "i", "t", "e">>)},
             o \in OutputOptions, ts \in HookTypeLists }
    \cup { [fn |-> "createSingleLoggingHook", hookType |-> DEFAULT_HOOK_TYPES[i],
            options |-> LoggingOptions(m, o[1], o[2], ts)] :
             i \in 1..Len(DEFAULT_HOOK_TYPES), m \in {Undefined, Str(<<"c", "u", "s", "t", "o", "m">>)},
             o \in OutputOptions, ts \in {Undefined, Arr(<< <<"Stop">> >>)} }

\* an input that has every payload field the hook types read
FullInput ==
  Object(<< << <<"name">>, Str(<<"R", "e", "a", "d">>) >>,
            << <<"input">>, Object(<< << <<"file_path">>, Str(<<"a", ".", "t", "x", "t">>) >> >>) >>,
            << <<"response">>, Str(<<"o", "k">>) >>,
            << <<"title">>, Str(<<"D", "o", "n", "e">>) >>,
            << <<"message">>, Str(<<"S", "u", "c", "c", "e", "s", "s", "!">>) >>,
            << <<"prompt">>, Str(<<"h", "i">>) >>,
            << <<"source">>, Str(<<"s", "t", "a", "r", "t", "u", "p">>) >>,
            << <<"reason">>, Str(<<"l", "o", "g", "o", "u", "t">>) >>,
            << <<"stopHookActive">>, Bool(FALSE) >>,
            << <<"trigger">>, Str(<<"a", "u", "t", "o">>) >>,
            << <<"customInstructions">>, Str(<<"b", "e", " ", "b", "r", "i", "e", "f">>) >>,
            << <<"transcriptPath">>, Str(<<"/", "t">>) >> >>)

HookInputs ==
  { Undefined, Null, Object(<<>>), FullInput, Str(<<"s", "a", "y", " ", "\"", "h", "i", "\"", "\n">>),
    Object(<< << <<"name">>, Str(<<"B", "a", "s", "h">>) >>, << <<"n">>, Num(-7) >>,
              << <<"list">>, Arr(<<Bool(TRUE), Null, Str(<<"\\">>)>>) >> >>) }

\* the tool use id and the options that come with an input
HookContexts ==
  { <<Null, Object(<<>>)>>,
    <<Str(<<"t", "o", "o", "l", "-", "1">>),
      Object(<< << <<"sessionId">>, Str(<<"t", "e", "s", "t">>) >>,
                << <<"cwd">>, Str(<<"/", "p">>) >>,
                << <<"transcriptPath">>, Str(<<"/", "t", "2">>) >>,
                << <<"permissionMode">>, Str(<<"p", "l", "a", "n">>) >> >>)>> }

LoggingInit ==
  /\ columns = 0
  /\ colorOn \in BOOLEAN
  /\ Idle
  /\ ShellAtRest
  /\ given \in LibraryCalls
  /\ callee = given.fn
  /\ answer = NoResult
  /\ logged = <<>>
  /\ settled = NoResult

\* withLogging(hooksConfig, options)
WithLogging ==
  /\ callee = "withLogging"
  /\ answer = NoResult
  /\ LET r == withLogging(given.hooksConfig, given.options)
     IN  /\ answer' = r.returned
         /\ given' = [given EXCEPT !.hooksConfig = r.hooksConfig]
  /\ UNCHANGED <<callee, logged, settled>>
  /\ UNCHANGED <<envVars, fmtVars, cliVars>>

\* createLoggingHooks(options)
CreateLoggingHooks ==
  /\ callee = "createLoggingHooks"
  /\ answer = NoResult
  /\ answer' = createLoggingHooks(given.options)
  /\ UNCHANGED <<callee, given, logged, settled>>
  /\ UNCHANGED <<envVars, fmtVars, cliVars>>

\* createSingleLoggingHook(hookType, options)
CreateSingleLoggingHook ==
  /\ callee = "createSingleLoggingHook"
  /\ answer = NoResult
  /\ answer' = createSingleLoggingHook(given.hookType, given.options)
  /\ UNCHANGED <<callee, given, logged, settled>>
  /\ UNCHANGED <<envVars, fmtVars, cliVars>>

\* the callbacks of the configuration held in answer
HooksOf(config) ==
  LET Elems(array) == {array.a[i] : i \in 1..Len(array.a)}
  IN  IF "entries" \notin DOMAIN config THEN {}
      ELSE UNION { UNION { Elems(matcher.hooks) : matcher \in Elems(config.entries[i][2]) } :
                     i \in 1..Len(config.entries) }

\* the SDK invokes a logging hook of the configuration: hook(input, toolUseID, options)
InvokeHook(hook, hookInput, toolUseID, hookOptions) ==
  /\ answer # NoResult
  /\ settled = NoResult
  /\ hook \in HooksOf(answer)
  /\ hook.name = "loggingHook"
  /\ settled' = [kind |-> "pending", value |-> Undefined, hook |-> hook, hookInput |-> hookInput,
                 toolUseID |-> toolUseID, hookOptions |-> hookOptions]
  /\ logged' = <<>>
  /\ UNCHANGED <<callee, given, answer>>
  /\ UNCHANGED <<envVars, fmtVars, cliVars>>

\* the logging hook runs: it writes to none of its arguments
RunLoggingHook ==
  /\ settled.kind = "pending"
  /\ LET r == LoggingHookBody(settled.hook, settled.hookInput, settled.toolUseID, settled.hookOptions)
     IN  /\ logged' = r.logs
         /\ settled' = [settled EXCEPT !.kind = r.promise.kind, !.value = r.promise.value]
  /\ UNCHANGED <<callee, given, answer>>
  /\ UNCHANGED <<envVars, fmtVars, cliVars>>

\* the SDK has awaited the promise and keeps nothing of the invocation
Settle ==
  /\ settled.kind \in {"resolved", "rejected"}
  /\ settled' = NoResult
  /\ logged' = <<>>
  /\ UNCHANGED <<callee, given, answer>>
  /\ UNCHANGED <<envVars, fmtVars, cliVars>>

LoggingNext ==
  \/ WithLogging
  \/ CreateLoggingHooks
  \/ CreateSingleLoggingHook
  \/ \E hook \in HooksOf(answer), hookInput \in HookInputs, context \in HookContexts :
        InvokeHook(hook, hookInput, context[1], context[2])
  \/ RunLoggingHook
  \/ Settle

LoggingSpec == LoggingInit /\ [][LoggingNext]_vars

---------------------------------------------------------------------------
(* Properties of the logging hooks *)

Made(fn) == callee = fn /\ answer # NoResult

\* the hook types a configuration defines, in order
HookTypesOf(config) == [i \in 1..Len(config.entries) |-> config.entries[i][1]]

IsLoggingHook(hook) == hook.t = "function" /\ hook.name = "loggingHook"

\* the matcher made from a given one: the pattern expected, a logging hook, then the
\* given matcher's hooks in their order
Wraps(made, matcher, pattern) ==
  /\ made.matcher = pattern
  /\ made.hooks.t = "array"
  /\ Len(made.hooks.a) >= 1
  /\ IsLoggingHook(made.hooks.a[1])
  /\ Tail(made.hooks.a) = (IF matcher.hooks.t = "array" THEN matcher.hooks.a ELSE <<>>)

\* the entries of the result match the entries `expected` of the input one to one
WrapsAll(expected, Pattern(_)) ==
  /\ HookTypesOf(answer) = [i \in 1..Len(expected) |-> expected[i][1]]
  /\ \A i \in 1..Len(expected) :
       LET before == expected[i][2]
           after == answer.entries[i][2]
       IN  /\ before.t = "array"
           /\ after.t = "array"
           /\ Len(after.a) = Len(before.a)
           /\ \A j \in 1..Len(before.a) : Wraps(after.a[j], before.a[j], Pattern(before.a[j]))

\* C22 as stated: the result has exactly the hook types of the input, and each
\* matcher keeps its pattern, '.*' when none was given.
C22_AsStated ==
  Made("withLogging") =>
    WrapsAll(given.hooksConfig.entries,
             LAMBDA m : IF m.matcher.t = "undefined" THEN MatchAll ELSE m.matcher)

\* C22: the result of withLogging has exactly the hook types of the input whose
\* value is a matcher list, in the input's order (a hook type whose value is
\* undefined or null is left out); for each of them it has as many matchers in
\* the same order, each with the given pattern when that is a non-empty string
\* and with '.*' when it is absent or empty, and each with a hook list of one
\* logging hook followed by the original hooks in their original order.
C22_Wrapped ==
  Made("withLogging") =>
    WrapsAll(SelectSeq(given.hooksConfig.entries, LAMBDA e : e[2].t \notin {"undefined", "null"}),
             LAMBDA m : IF m.matcher.t = "string" /\ m.matcher.s # <<>> THEN m.matcher
                        ELSE MatchAll)

\* withLogging was given two hook types, one without a value and one with three
\* matchers, among them one with two hooks and one with none
C22_Witness ==
  /\ Made("withLogging")
  /\ Len(given.hooksConfig.entries) = 2
  /\ given.hooksConfig.entries[1][2] = Undefined
  /\ given.hooksConfig.entries[2][2] = Arr(<<WriteMatcher, ReadMatcher, BareMatcher>>)
  /\ Len(answer.entries) = 1
  /\ Len(answer.entries[1][2].a[1].hooks.a) = 3

\* the nine hook types of the SDK
AllHookTypes ==
  { <<"PreToolUse">>, <<"PostToolUse">>, <<"Notification">>, <<"UserPromptSubmit">>,
    <<"SessionStart">>, <<"SessionEnd">>, <<"Stop">>, <<"SubagentStop">>, <<"PreCompact">> }

\* the hook types the call lists
Listed ==
  IF callee = "createSingleLoggingHook" THEN {given.hookType}
  ELSE IF given.options.hookTypes.t = "undefined" THEN AllHookTypes
  ELSE {given.options.hookTypes.a[i] : i \in 1..Len(given.options.hookTypes.a)}

\* C23: createLoggingHooks returns a configuration that defines exactly the
\* listed hook types (all nine when no list is given), each once, each with
\* exactly one matcher whose pattern is the matcher option ('.*' when none is
\* given) and whose hook list is exactly one callback; createSingleLoggingHook(t)
\* defines exactly hook type t.
C23_OneLoggerPerType ==
  (Made("createLoggingHooks") \/ Made("createSingleLoggingHook")) =>
    /\ {answer.entries[i][1] : i \in 1..Len(answer.entries)} = Listed
    /\ Len(answer.entries) = Cardinality(Listed)
    /\ \A i \in 1..Len(answer.entries) :
         LET matchers == answer.entries[i][2]
         IN  /\ matchers.t = "array"
             /\ Len(matchers.a) = 1
             /\ matchers.a[1].matcher =
                  (IF given.options.matcher.t = "undefined" THEN Str(<<".", "*">>)
                   ELSE given.options.matcher)
             /\ matchers.a[1].hooks.t = "array"
             /\ Len(matchers.a[1].hooks.a) = 1
             /\ matchers.a[1].hooks.a[1].t = "function"

\* createLoggingHooks was called without a list and without a pattern and has
\* returned nine hook types
C23_Witness ==
  /\ Made("createLoggingHooks")
  /\ given.options.hookTypes = Undefined
  /\ given.options.matcher = Undefined
  /\ Len(answer.entries) = 9

\* createSingleLoggingHook was called with options that list another hook type
C23_SingleWitness ==
  /\ Made("createSingleLoggingHook")
  /\ given.hookType = <<"PreCompact">>
  /\ given.options.hookTypes = Arr(<< <<"Stop">> >>)
  /\ HookTypesOf(answer) = << <<"PreCompact">> >>

---------------------------------------------------------------------------
(* JSON texts, as JSON.parse accepts them.  Each operator takes a text and  *)
(* a position and gives the position after what it reads there, 0 when the  *)
(* text has no such thing at that position.                                 *)

At(text, i) == IF i \in 1..Len(text) THEN text[i] ELSE "EOF"

RECURSIVE SkipSpace(_, _)
SkipSpace(text, i) == IF At(text, i) \in {" ", "\n"} THEN SkipSpace(text, i + 1) ELSE i

\* the characters of a string up to its closing quote
RECURSIVE StringEnd(_, _)
StringEnd(text, i) ==
  CASE At(text, i) = "\"" -> i + 1
    [] At(text, i) = "\\" ->
         IF At(text, i + 1) \in {"\"", "\\", "/", "b", "f", "n", "r", "t"}
         THEN StringEnd(text, i + 2) ELSE 0
    [] At(text, i) \in {"EOF", "\n"} -> 0
    [] OTHER -> StringEnd(text, i + 1)

RECURSIVE DigitsEnd(_, _)
DigitsEnd(text, i) ==
  IF At(text, i) \in {"0", "1", "2", "3", "4", "5", "6", "7", "8", "9"}
  THEN DigitsEnd(text, i + 1) ELSE i

\* an integer: an optional sign, then 0 or digits that do not start with 0
NumberEnd(text, i) ==
  LET first == IF At(text, i) = "-" THEN i + 1 ELSE i
      last == DigitsEnd(text, first)
  IN  IF last = first \/ (At(text, first) = "0" /\ last > first + 1) THEN 0 ELSE last

LiteralEnd(text, i, word) ==
  IF i + Len(word) - 1 <= Len(text) /\ SubSeq(text, i, i + Len(word) - 1) = word
  THEN i + Len(word) ELSE 0

RECURSIVE ValueEnd(_, _), ElementsEnd(_, _), MembersEnd(_, _)
ValueEnd(text, i) ==
  CASE At(text, i) = "\"" -> StringEnd(text, i + 1)
    [] At(text, i) = "[" ->
         LET j == SkipSpace(text, i + 1)
         IN  IF At(text, j) = "]" THEN j + 1 ELSE ElementsEnd(text, j)
    [] At(text, i) = "{" ->
         LET j == SkipSpace(text, i + 1)
         IN  IF At(text, j) = "}" THEN j + 1 ELSE MembersEnd(text, j)
    [] At(text, i) = "t" -> LiteralEnd(text, i, <<"t", "r", "u", "e">>)
    [] At(text, i) = "f" -> LiteralEnd(text, i, <<"f", "a", "l", "s", "e">>)
    [] At(text, i) = "n" -> LiteralEnd(text, i, <<"n", "u", "l", "l">>)
    [] OTHER -> NumberEnd(text, i)

\* the elements of an array from position i to the closing bracket
ElementsEnd(text, i) ==
  LET e == ValueEnd(text, i)
      j == SkipSpace(text, e)
  IN  IF e = 0 THEN 0
      ELSE IF At(text, j) = "]" THEN j + 1
      ELSE IF At(text, j) = "," THEN ElementsEnd(text, SkipSpace(text, j + 1))
      ELSE 0

\* the members of an object from position i to the closing brace
MembersEnd(text, i) ==
  LET k == IF At(text, i) = "\"" THEN StringEnd(text, i + 1) ELSE 0
      c == SkipSpace(text, k)
      e == IF k # 0 /\ At(text, c) = ":" THEN ValueEnd(text, SkipSpace(text, c + 1)) ELSE 0
      j == SkipSpace(text, e)
  IN  IF e = 0 THEN 0
      ELSE IF At(text, j) = "}" THEN j + 1
      ELSE IF At(text, j) = "," THEN MembersEnd(text, SkipSpace(text, j + 1))
      ELSE 0

\* JSON.parse(text) does not throw
IsJson(text) ==
  LET e == ValueEnd(text, SkipSpace(text, 1))
  IN  e # 0 /\ SkipSpace(text, e) = Len(text) + 1

---------------------------------------------------------------------------
(* What a logging hook does when it is invoked *)

HookRan == settled.kind \in {"resolved", "rejected"}

\* the logger the hook was made with: the logger option, console.log by default
LoggerOf(options) == IF options.logger.t = "undefined" THEN "console.log" ELSE options.logger.name

C24_RawWitness ==
  /\ HookRan
  /\ callee = "createLoggingHooks"
  /\ given.options.formatted = Bool(FALSE)
  /\ settled.hookInput.t = "string"
  /\ Len(logged) = 1
  /\ IsJson(logged[1].text)

---------------------------------------------------------------------------
(* What the logging hooks leave of their arguments *)

---------------------------------------------------------------------------
(* The content of an assistant turn *)

AssistantRendered ==
  /\ IsRecord("assistant")
  /\ pc \in {"box", "returned"}
  /\ msg.message.t = "object"
  /\ msg.message.content.t = "array"

\* the parameters of a tool invocation, none if its input is not an object
ParametersOf(block) ==
  IF block.type = "tool_use" /\ block.input.t = "object" THEN block.input.entries ELSE <<>>

\* what is rendered for a block is the text of a text block, and for a tool
\* invocation a blank line, the arrow line and one line for each parameter
AsManyLines(block) ==
  LET rendered == join(AssistantBlockLines(block), <<"\n">>)
  IN  CASE block.type = "text" -> rendered = block.text
        [] block.type = "tool_use" -> Count(rendered, "\n") = 1 + Len(ParametersOf(block))
        [] OTHER -> TRUE

\* C25 as stated: the content of an assistant record is its blocks in their
\* order, a text block as its text and a tool invocation as one arrow line
\* followed by exactly one indented key: value line for each parameter, and
\* then the [Thinking] block, if any.
C25_AsStated ==
  AssistantRendered =>
    LET blocks == msg.message.content.a
    IN  /\ content = join(AssistantLines(blocks) \o ThinkingLines(msg.message), <<"\n">>)
        /\ \A i \in 1..Len(blocks) : AsManyLines(blocks[i])

---------------------------------------------------------------------------
(* Validation and the replay check *)

ReplayWithoutPayload ==
  /\ IsRecord("user")
  /\ Truthy(msg.isReplay)
  /\ ~Truthy(msg.message)

\* C26: in formatMessage validation runs before the replay check.  The first
\* function a call enters is validateMessage, and a user record with isReplay
\* set and no message payload ends with the validation error, the user renderer
\* never entered, instead of returning the empty string.
C26_ValidationFirst ==
  /\ calls # <<>> => calls[1] = "validateMessage"
  /\ (ReplayWithoutPayload /\ Over) =>
       /\ pc = "thrown"
       /\ result = Thrown("Error", <<"User messages require a \"message\" field with content">>)
       /\ calls = <<"validateMessage">>

\* a replay record without a payload has been rejected
C26_Witness ==
  /\ ReplayWithoutPayload
  /\ msg.message = Undefined
  /\ pc = "thrown"
  /\ result.kind = "error"

---------------------------------------------------------------------------
(* The exit status of the shell *)

\* main's catch has reported: the last entry of standard error starts with "Error: "
MainFailed == stderr # <<>> /\ Head(stderr[Len(stderr)]) = "Error: "

\* what main's catch reported
FailureReported == stderr[Len(stderr)][2]

\* C27: in stdin mode and file mode a line that fails to parse, validate or
\* render never changes the exit status.  The process ends with exit code 1
\* exactly when main's catch has reported a failure, which is a missing file, a
\* file that cannot be read, too many arguments, a failure in inline mode or a
\* failure of the input stream; in every other case, also when every line
\* failed, it ends with exit code 0.
C27_ExitStatus ==
  cliPc = "exited" =>
    /\ exitCode \in {0, 1}
    /\ exitCode = 1 <=> MainFailed
    /\ MainFailed =>
         \/ mode = "file" /\ FailureReported = "File not found: " /\ ~existsSync(argv[1].raw)
         \/ mode = "file" /\ FailureReported = "Error reading file: " /\ source = <<>>
         \/ mode = "error" /\ Len(argv) > 1
         \/ mode = "inline" /\ FailureReported = "Error parsing JSON: "
         \/ mode = "stdin" /\ FailureReported = "Error processing stdin: "
    /\ (mode = "file" /\ existsSync(argv[1].raw) /\ argv[1].raw # UnreadablePath) => exitCode = 0

\* a file of two lines or more, each of which failed, has been processed to the end
C27_Witness ==
  /\ cliPc = "exited"
  /\ mode = "file"
  /\ Len(source) >= 2
  /\ \A i \in 1..Len(source) : ~IsBlank(source[i]) /\ LineFails(source[i])
  /\ stderr # <<>>
  /\ stdout = << <<>> >>
  /\ exitCode = 0

\* standard input delivered lines that all failed and then ended
C27_StdinWitness ==
  /\ cliPc = "exited"
  /\ mode = "stdin"
  /\ Len(source) >= 2
  /\ \A i \in 1..Len(source) : ~IsBlank(source[i]) /\ LineFails(source[i])
  /\ exitCode = 0

---------------------------------------------------------------------------
(* Renderings of whitespace alone *)

IsTextDelta(line) ==
  /\ line.json # NotJson
  /\ line.json.type = "stream_event"
  /\ line.json.event.type = "content_block_delta"
  /\ line.json.event.delta.type = "text_delta"

DeltaText(line) == line.json.event.delta.text

\* the texts of a sequence of text deltas
DeltaTexts(lines) == [i \in 1..Len(lines) |-> DeltaText(lines[i])]

\* C28: the shell writes a record's rendering to standard output only if the
\* rendering has a character that is not whitespace: every block written after
\* the first empty line has such a character, an inline argument whose
\* rendering is whitespace alone writes nothing, and of a stream of text deltas
\* exactly the texts with such a character are written, so a delta of spaces
\* or newlines alone is missing from what is printed.
C28_OnlyInkWritten ==
  /\ \A i \in 2..Len(stdout) : mode # "none" => HasInk(stdout[i])
  /\ (mode = "inline" /\ cliPc = "exited" /\ ~LineFails(argv[1]))
       => Written = (IF HasInk(formatMessage(argv[1].json, TRUE).str)
                     THEN <<formatMessage(argv[1].json, TRUE).str>> ELSE <<>>)
  /\ (mode \in {"stdin", "file"} /\ \A i \in 1..Len(Processed) : IsTextDelta(Processed[i]))
       => Written = SelectSeq(DeltaTexts(Processed), HasInk)

\* a stream of three text deltas, the second of newlines alone, has been
\* processed: what was printed, concatenated, is not the text that was streamed
C28_Witness ==
  /\ mode = "stdin"
  /\ cliPc = "exited"
  /\ Len(source) = 3
  /\ \A i \in 1..3 : IsTextDelta(source[i])
  /\ DeltaText(source[1]) = <<"a">>
  /\ DeltaText(source[2]) = <<"\n">>
  /\ DeltaText(source[3]) = <<"a">>
  /\ join(Written, <<>>) = <<"a", "a">>
  /\ join(DeltaTexts(source), <<>>) = <<"a", "\n", "a">>

\* an inline text delta of one space has been processed and nothing written
C28_InlineWitness ==
  /\ mode = "inline"
  /\ cliPc = "exited"
  /\ argv[1].json = SpaceDelta
  /\ exitCode = 0
  /\ Written = <<>>

---------------------------------------------------------------------------
(* Synthetic user records *)

\* what the user renderer puts in front of the content of a synthetic record
SyntheticMarker == Paint("dim", <<"[Synthetic]">>) \o <<" ">>

\* a call for a user record that is not a replay has returned
UserReturned == pc = "returned" /\ IsRecord("user") /\ ~IsReplay(msg)

\* C29: for a user record that is not a replay and has isSynthetic set, the
\* content starts with the synthetic marker and so is never empty: with
\* showBox true the call returns a box, also when the record's content is the
\* empty string, and then the box has the USER header and the marker alone;
\* the same record without isSynthetic returns the empty string.
C29_SyntheticMarker ==
  /\ (UserReturned /\ Truthy(msg.isSynthetic)) =>
       /\ Len(content) >= Len(SyntheticMarker)
       /\ SubSeq(content, 1, Len(SyntheticMarker)) = SyntheticMarker
       /\ trim(content) # <<>>
       /\ result = Returned(IF showBox THEN createBox(UserHeader(msg.message.content), content)
                            ELSE content)
       /\ (showBox /\ msg.message.content = Str(<<>>)) =>
            result = Returned(createBox(Paint("green", <<DIAMOND, " ", "USER">>), SyntheticMarker))
  /\ (UserReturned /\ ~Truthy(msg.isSynthetic) /\ msg.message.content = Str(<<>>)) =>
       result = Returned(<<>>)

\* a synthetic record whose content is the empty string has come back boxed
C29_Witness ==
  /\ UserReturned
  /\ msg.isSynthetic = Bool(TRUE)
  /\ msg.message.content = Str(<<>>)
  /\ showBox
  /\ content = SyntheticMarker
  /\ result.str # content
  /\ Len(result.str) > Len(content)

\* the same record without isSynthetic has come back as the empty string
C29_PlainWitness ==
  /\ UserReturned
  /\ msg.isSynthetic = Undefined
  /\ msg.message.content = Str(<<>>)
  /\ showBox
  /\ result = Returned(<<>>)

====
